---- MODULE Spec2Model ----
(***************************************************************************)
(* Market analysis agent: the HTTP service (src/src/api/main.py) and the   *)
(* LangGraph orchestrator (src/src/agents/orchestrator.py).                *)
(*                                                                         *)
(* Scheduling.  analyze_product, run_analysis and get_results are          *)
(* coroutines of one asyncio event loop and none of them awaits, so each   *)
(* runs to completion before another handler starts; orchestrator.run is   *)
(* a blocking call inside run_analysis.  The model keeps the position of   *)
(* the one background run that may be in progress (run.pc, run.node) and   *)
(* lets no other handler act while it is "invoke".                         *)
(*                                                                         *)
(* Text.  A string is a sequence of tokens; the token "analyze" is the     *)
(* lower-case substring the orchestrator splits on, "Analyze" the same     *)
(* word in another case, " " whitespace, any other token ordinary text.    *)
(* Optional values: None is the empty tuple, a present value v is <<v>>.   *)
(***************************************************************************)
EXTENDS Integers, Sequences, FiniteSets, TLC

\* ------------------------------------------------------------------ bounds
MaxRequests == 2

\* ------------------------------------------------------------- input sets
ProductNames == { <<"x">>, <<" ", "x", " ">> }

ExcMessages == { "", "Tool failed" }

RequestIds == 1..(MaxRequests + 1)

AnalysisRequest == [product_name : ProductNames, analysis_type : {"comprehensive"}]

\* --------------------------------------------------------------- helpers
None == << >>

Some(v) == << v >>

\* dict.get(key, default)
Get(d, k, default) == IF k \in DOMAIN d THEN d[k] ELSE default

\* dict.update(u)
DictUpdate(d, u) ==
  [k \in (DOMAIN d) \cup (DOMAIN u) |-> IF k \in DOMAIN u THEN u[k] ELSE d[k]]

\* truth value of an Optional[str]: None and the empty string are falsy
Truthy(e) == e # None /\ e[1] # ""

\* --------------------------------------------------------------- strings
Lower(tok) == IF tok = "Analyze" THEN "analyze" ELSE tok

\* "analyze" in content.lower()
ContainsAnalyze(s) == \E i \in 1..Len(s) : Lower(s[i]) = "analyze"

\* content.split("analyze")[-1]: the text after the last occurrence
SplitLast(s) ==
  LET occ == { i \in 1..Len(s) : s[i] = "analyze" }
  IN  IF occ = {} THEN s
      ELSE LET last == CHOOSE i \in occ : \A j \in occ : j <= i
           IN  SubSeq(s, last + 1, Len(s))

\* str.strip()
Strip(s) ==
  LET nonws == { i \in 1..Len(s) : s[i] # " " }
  IN  IF nonws = {} THEN << >>
      ELSE LET lo == CHOOSE i \in nonws : \A j \in nonws : i <= j
               hi == CHOOSE i \in nonws : \A j \in nonws : j <= i
           IN  SubSeq(s, lo, hi)

\* ------------------------------------------------------------- tool calls
\* What a call of tool._run can do: return a result mapping or raise.
ToolNames == {"web_scraper", "sentiment_analyzer", "market_trend", "report_generator"}

ToolReturns(tool) ==
  IF tool = "web_scraper"
  THEN { [status |-> "success", products |-> << >>, count |-> 0],
         [status |-> "error", error |-> "Product name is required",
          products |-> << >>, count |-> 0] }
  ELSE IF tool = "report_generator"
  THEN { [status |-> "success", report |-> "report"],
         [status |-> "error", error |-> "failed", report |-> "empty"] }
  ELSE { [status |-> "success"],
         [status |-> "error", error |-> "failed", analysis |-> "empty"] }

ToolOutcomes(tool) ==
  { [kind |-> "return", value |-> v] : v \in ToolReturns(tool) }
    \cup { [kind |-> "raise", msg |-> m] : m \in ExcMessages }

\* ------------------------------------------------------------- workflow
END == "__end__"

Nodes == {"analyze_request", "scrape_products", "analyze_sentiment",
          "analyze_market", "generate_report", "handle_error"}

EntryPoint == "analyze_request"

StepsCompleted == <<"analyze_request", "scrape_products", "analyze_sentiment",
                    "analyze_market", "generate_report">>

\* the edges of _build_workflow; the state plays no part in the routing
NextNode_shortcircuit(node, state) ==
  IF node \in {"generate_report", "handle_error"} THEN END
  ELSE IF state.error # None THEN "handle_error"
  ELSE CASE node = "analyze_request"   -> "scrape_products"
         [] node = "scrape_products"   -> "analyze_sentiment"
         [] node = "analyze_sentiment" -> "analyze_market"
         [] node = "analyze_market"    -> "generate_report"

NextNode(node, state) ==
  CASE node = "analyze_request"   -> "scrape_products"
    [] node = "scrape_products"   -> "analyze_sentiment"
    [] node = "analyze_sentiment" -> "analyze_market"
    [] node = "analyze_market"    -> "generate_report"
    [] node = "generate_report"   -> END
    [] node = "handle_error"      -> END

ToolOf(node) ==
  CASE node = "scrape_products"   -> "web_scraper"
    [] node = "analyze_sentiment" -> "sentiment_analyzer"
    [] node = "analyze_market"    -> "market_trend"
    [] node = "generate_report"   -> "report_generator"
    [] OTHER                      -> "none"

AIMessage(c) == [type |-> "ai", content |-> c]

HumanMessage(c) == [type |-> "human", content |-> c]

InitialState(request) ==
  [ messages     |-> << HumanMessage(request) >>,
    product_name |-> None,
    product_data |-> None,
    sentiment_data |-> None,
    market_data  |-> None,
    final_report |-> None,
    error        |-> None,
    current_step |-> "start" ]

analyze_request(state) ==
  LET s1 == [state EXCEPT !.current_step = "analyze_request"]
  IN  IF s1.messages = << >>
      THEN [s1 EXCEPT !.error = Some("No request message found")]
      ELSE LET content == s1.messages[Len(s1.messages)].content
           IN  IF ContainsAnalyze(content)
               THEN [s1 EXCEPT !.product_name = Some(Strip(SplitLast(content)))]
               ELSE [s1 EXCEPT !.product_name = Some(Strip(content))]

scrape_products(state, out) ==
  LET s1 == [state EXCEPT !.current_step = "scrape_products"]
  IN  IF out.kind = "return"
      THEN [s1 EXCEPT !.product_data = Some(out.value),
                      !.messages = Append(@, AIMessage(<<"Found", Get(out.value, "count", 0), "products">>))]
      ELSE [s1 EXCEPT !.error = Some(out.msg),
                      !.product_data = Some([status |-> "error", error |-> out.msg,
                                             products |-> << >>])]

analyze_sentiment_checksStatus(state, out) ==
  LET s1 == [state EXCEPT !.current_step = "analyze_sentiment"]
  IN  IF out.kind = "return"
      THEN [s1 EXCEPT !.sentiment_data = Some(out.value),
                      !.error = IF out.value.status = "error" THEN Some("failed") ELSE @,
                      !.messages = Append(@, AIMessage(<<"Sentiment analysis completed">>))]
      ELSE [s1 EXCEPT !.error = Some(out.msg)]

analyze_sentiment(state, out) ==
  LET s1 == [state EXCEPT !.current_step = "analyze_sentiment"]
  IN  IF out.kind = "return"
      THEN [s1 EXCEPT !.sentiment_data = Some(out.value),
                      !.messages = Append(@, AIMessage(<<"Sentiment analysis completed">>))]
      ELSE [s1 EXCEPT !.error = Some(out.msg)]

analyze_market(state, out) ==
  LET s1 == [state EXCEPT !.current_step = "analyze_market"]
  IN  IF out.kind = "return"
      THEN [s1 EXCEPT !.market_data = Some(out.value),
                      !.messages = Append(@, AIMessage(<<"Market analysis completed">>))]
      ELSE [s1 EXCEPT !.error = Some(out.msg)]

generate_report(state, out) ==
  LET s1 == [state EXCEPT !.current_step = "generate_report"]
  IN  IF out.kind = "return"
      THEN [s1 EXCEPT !.final_report = Some(out.value),
                      !.messages = Append(@, AIMessage(<<"Report generation completed">>))]
      ELSE [s1 EXCEPT !.error = Some(out.msg)]

handle_error(state) ==
  [state EXCEPT !.messages = Append(@, AIMessage(<<"Error occurred", state.error>>))]

\* the node function the compiled graph calls for a node
RunNode(node, state, out) ==
  CASE node = "analyze_request"   -> analyze_request(state)
    [] node = "scrape_products"   -> scrape_products(state, out)
    [] node = "analyze_sentiment" -> analyze_sentiment(state, out)
    [] node = "analyze_market"    -> analyze_market(state, out)
    [] node = "generate_report"   -> generate_report(state, out)
    [] node = "handle_error"      -> handle_error(state)

\* what run() returns for the final state of workflow.invoke
RunResult(final_state) ==
  IF Truthy(final_state.error)
  THEN [status |-> "error", error |-> final_state.error[1],
        step |-> final_state.current_step]
  ELSE [status |-> "success", report |-> final_state.final_report,
        steps_completed |-> StepsCompleted]

\* ------------------------------------------------------------------ state
VARIABLES
  analysis_cache,    \* request_id -> cache entry (api/main.py: analysis_cache)
  background_tasks,  \* tasks added by add_task and not yet run
  responses,         \* the AnalysisResponse of every POST /analyze, in order
  last_get,          \* the answer of GET /results/{id}, until the next handler runs
  clock,             \* datetime.now(): one tick per handler that reads it
  updates,           \* request_id -> number of update() calls on its entry
  run,               \* the background run in progress
  tool_call          \* a direct call of one tool (tools/*.py): its inputs and outcome

vars == <<analysis_cache, background_tasks, responses, last_get, clock, updates, run,
          tool_call>>

\* no tool is being called directly
NoCall == [tool |-> "none", pc |-> "none"]

\* no background run in progress
IdleRun ==
  [ pc |-> "idle", request_id |-> 0, product_name |-> << >>, node |-> END,
    state |-> None, executed |-> << >>,
    tool_calls |-> [t \in ToolNames |-> 0], raised |-> << >>, result |-> None ]

Init ==
  /\ analysis_cache = << >>
  /\ background_tasks = {}
  /\ responses = << >>
  /\ last_get = None
  /\ clock = 0
  /\ updates = << >>
  /\ run = IdleRun
  /\ tool_call = NoCall

\* the event loop is free: no background run is between its first and last line
LoopFree == run.pc \in {"idle", "crashed"}

\* ------------------------------------------------------------ POST /analyze
\* uuid.uuid4(): an identifier no earlier call returned.  Identifiers are
\* opaque and only compared for equality, so the least unused one stands
\* for any fresh one.
uuid4_reused(issued) == RequestIds

uuid4(issued) ==
  { id \in RequestIds \ issued : \A other \in RequestIds \ issued : id <= other }

ProcessingEntry_queued(request, now) ==
  [status |-> "queued", started_at |-> now, request |-> request]

ProcessingEntry(request, now) ==
  [status |-> "processing", started_at |-> now, request |-> request]

add_task_dropped(tasks, request_id, product_name) == tasks

\* background_tasks.add_task(run_analysis, request_id, request.product_name)
add_task(tasks, request_id, product_name) ==
  tasks \cup { [request_id |-> request_id, product_name |-> product_name] }

AnalysisResponse(request_id, product_name) ==
  [ request_id |-> request_id, status |-> "processing",
    message |-> <<"Analysis started for">> \o product_name,
    result_url |-> <<"/results/", request_id>> ]

Issued == { responses[i].request_id : i \in 1..Len(responses) }

analyze_product_nostore(request) ==
  /\ LoopFree
  /\ Len(responses) < MaxRequests
  /\ \E request_id \in uuid4(Issued) :
       /\ background_tasks' = add_task(background_tasks, request_id, request.product_name)
       /\ responses' = Append(responses, AnalysisResponse(request_id, request.product_name))
  /\ clock' = clock + 1
  /\ last_get' = None
  /\ UNCHANGED <<analysis_cache, updates, run>>
  /\ UNCHANGED tool_call

analyze_product(request) ==
  /\ LoopFree
  /\ Len(responses) < MaxRequests
  /\ \E request_id \in uuid4(Issued) :
       /\ analysis_cache' =
            [k \in (DOMAIN analysis_cache) \cup {request_id} |->
               IF k = request_id THEN ProcessingEntry(request, clock)
               ELSE analysis_cache[k]]
       /\ updates' = [k \in (DOMAIN updates) \cup {request_id} |->
                        IF k = request_id THEN 0 ELSE updates[k]]
       /\ background_tasks' = add_task(background_tasks, request_id, request.product_name)
       /\ responses' = Append(responses, AnalysisResponse(request_id, request.product_name))
  /\ clock' = clock + 1
  /\ last_get' = None
  /\ UNCHANGED run
  /\ UNCHANGED tool_call

\* ------------------------------------------------------------- run_analysis
CompletedFields_byStatus(result, now) ==
  IF result.status = "error"
  THEN [status |-> "failed", completed_at |-> now, result |-> result,
        framework_used |-> "langgraph"]
  ELSE [status |-> "completed", completed_at |-> now, result |-> result,
        framework_used |-> "langgraph"]

CompletedFields(result, now) ==
  [status |-> "completed", completed_at |-> now, result |-> result,
   framework_used |-> "langgraph"]

FailedFields_keepsResult(err, now) ==
  [status |-> "failed", error |-> err, completed_at |-> now, result |-> None]

FailedFields(err, now) ==
  [status |-> "failed", error |-> err, completed_at |-> now]

\* a background task is run once: it leaves the task list when it starts
TakeTask_keep(tasks, t) == tasks

TakeTask(tasks, t) == tasks \ {t}

UpdateEntry_all(request_id, fields) ==
  /\ analysis_cache' = [k \in DOMAIN analysis_cache |->
                          IF analysis_cache[k].status = "processing"
                          THEN DictUpdate(analysis_cache[k], fields)
                          ELSE analysis_cache[k]]
  /\ updates' = [k \in DOMAIN updates |->
                   IF analysis_cache[k].status = "processing"
                   THEN updates[k] + 1 ELSE updates[k]]

\* analysis_cache[request_id].update(fields), in the try or the except block
UpdateEntry(request_id, fields) ==
  /\ analysis_cache' = [analysis_cache EXCEPT ![request_id] = DictUpdate(@, fields)]
  /\ updates' = [updates EXCEPT ![request_id] = @ + 1]

run_analysis_failed_evict(t) ==
  /\ LoopFree
  /\ t \in background_tasks
  /\ background_tasks' = TakeTask(background_tasks, t)
  /\ analysis_cache' = [k \in (DOMAIN analysis_cache) \ {t.request_id} |-> analysis_cache[k]]
  /\ updates' = [k \in (DOMAIN updates) \ {t.request_id} |-> updates[k]]
  /\ run' = IdleRun
  /\ clock' = clock + 1
  /\ last_get' = None
  /\ UNCHANGED responses
  /\ UNCHANGED tool_call

\* MarketAnalysisOrchestrator() raises: the except block writes 'failed'
run_analysis_failed(t) ==
  /\ LoopFree
  /\ t \in background_tasks
  /\ background_tasks' = TakeTask(background_tasks, t)
  /\ \E m \in ExcMessages :
       IF t.request_id \in DOMAIN analysis_cache
       THEN /\ UpdateEntry(t.request_id, FailedFields(m, clock))
            /\ run' = IdleRun
       ELSE \* KeyError inside the except block leaves run_analysis
            /\ UNCHANGED <<analysis_cache, updates>>
            /\ run' = [IdleRun EXCEPT !.pc = "crashed", !.request_id = t.request_id]
  /\ clock' = clock + 1
  /\ last_get' = None
  /\ UNCHANGED responses
  /\ UNCHANGED tool_call

\* MarketAnalysisOrchestrator() succeeds and run() builds the initial state
run_analysis_begin(t) ==
  /\ LoopFree
  /\ t \in background_tasks
  /\ background_tasks' = TakeTask(background_tasks, t)
  /\ run' = [IdleRun EXCEPT !.pc = "invoke", !.request_id = t.request_id,
                            !.product_name = t.product_name,
                            !.node = EntryPoint,
                            !.state = Some(InitialState(<<"analyze", " ">> \o t.product_name))]
  /\ last_get' = None
  /\ UNCHANGED <<analysis_cache, updates, responses, clock>>
  /\ UNCHANGED tool_call

\* workflow.invoke executes the next node of the compiled graph
workflow_step ==
  /\ run.pc = "invoke"
  /\ run.node # END
  /\ \E out \in ToolOutcomes(ToolOf(run.node)) :
       LET tool == ToolOf(run.node)
           st   == RunNode(run.node, run.state[1], out)
       IN  run' = [run EXCEPT
                     !.state = Some(st),
                     !.node = NextNode(run.node, st),
                     !.executed = Append(@, run.node),
                     !.tool_calls = IF tool \in ToolNames
                                    THEN [@ EXCEPT ![tool] = @ + 1] ELSE @,
                     !.raised = IF tool \in ToolNames /\ out.kind = "raise"
                                THEN Append(@, [step |-> run.node, msg |-> out.msg])
                                ELSE @]
  /\ UNCHANGED <<analysis_cache, background_tasks, responses, last_get, clock, updates>>
  /\ UNCHANGED tool_call

\* workflow.invoke has returned the final state: run() returns its result
run_return ==
  /\ run.pc = "invoke"
  /\ run.node = END
  /\ run' = [run EXCEPT !.pc = "returned", !.result = Some(RunResult(run.state[1]))]
  /\ UNCHANGED <<analysis_cache, background_tasks, responses, last_get, clock, updates>>
  /\ UNCHANGED tool_call

\* run_analysis stores the result of orchestrator.run
run_analysis_end ==
  /\ run.pc = "returned"
  /\ IF run.request_id \in DOMAIN analysis_cache
     THEN /\ UpdateEntry(run.request_id, CompletedFields(run.result[1], clock))
          /\ run' = IdleRun
     ELSE \* KeyError in the try block and again in the except block
          /\ UNCHANGED <<analysis_cache, updates>>
          /\ run' = [IdleRun EXCEPT !.pc = "crashed", !.request_id = run.request_id]
  /\ clock' = clock + 1
  /\ UNCHANGED <<background_tasks, responses, last_get>>
  /\ UNCHANGED tool_call

\* ------------------------------------------------- GET /results/{request_id}
get_results_pop(request_id) ==
  /\ LoopFree
  /\ last_get' = IF request_id \notin DOMAIN analysis_cache
                 THEN Some([request_id |-> request_id, status_code |-> 404,
                            body |-> [detail |-> "Analysis not found"]])
                 ELSE Some([request_id |-> request_id, status_code |-> 200,
                            body |-> analysis_cache[request_id]])
  /\ analysis_cache' = [k \in (DOMAIN analysis_cache) \ {request_id} |-> analysis_cache[k]]
  /\ UNCHANGED <<background_tasks, responses, clock, updates, run>>
  /\ UNCHANGED tool_call

get_results(request_id) ==
  /\ LoopFree
  /\ last_get' = IF request_id \notin DOMAIN analysis_cache
                 THEN Some([request_id |-> request_id, status_code |-> 404,
                            body |-> [detail |-> "Analysis not found"]])
                 ELSE Some([request_id |-> request_id, status_code |-> 200,
                            body |-> analysis_cache[request_id]])
  /\ UNCHANGED <<analysis_cache, background_tasks, responses, clock, updates, run>>
  /\ UNCHANGED tool_call

Next ==
  \/ \E request \in AnalysisRequest : analyze_product(request)
  \/ \E t \in background_tasks : run_analysis_failed(t)
  \/ \E t \in background_tasks : run_analysis_begin(t)
  \/ workflow_step
  \/ run_return
  \/ run_analysis_end
  \/ \E request_id \in RequestIds : get_results(request_id)

Spec == Init /\ [][Next]_vars

TypeOK ==
  /\ DOMAIN analysis_cache \subseteq RequestIds
  /\ \A k \in DOMAIN analysis_cache :
       analysis_cache[k].status \in {"processing", "completed", "failed"}
  /\ run.pc \in {"idle", "invoke", "returned", "crashed"}
  /\ Len(responses) <= MaxRequests

\* ========================================================================
\* tools/web_scraper.py: WebScraperTool._run called directly
\* ========================================================================
\* The response text is a sequence of tokens: "FENCE_JSON" and "FENCE" the
\* opening and the closing mark of a fenced json block, "[" "]" "{" "}" "," the JSON punctuation, "n" a number literal,
\* "url" a "source_url" member of an object, " " whitespace and "p" any
\* other character.  Slices count tokens.
MaxLimit == 3

DescriptionLimit == 500

DefaultMaxResults == 3

LongText == [i \in 1..(DescriptionLimit + 1) |-> "p"]

ResponseTexts ==
  { <<"[", "{", "}", "]">>,
    <<"[", "{", "url", "}", ",", "{", "}", ",", "{", "}", ",", "{", "}", "]">>,
    <<"{", "}">>,
    <<"p", " ", "{", "url", "}", "p">>,
    <<"p", "FENCE_JSON", " ", "[", "{", "}", ",", "{", "}", "]", " ", "FENCE", "p">>,
    <<"FENCE_JSON", "[", "{", "}", "]">>,
    <<"FENCE_JSON", "p", "FENCE">>,
    <<"n">>,
    <<"[", "n", ",", "n", "]">>,
    <<"[", "{", "}", ",", "n", "]">>,
    <<"[", "[", "]", "]">>,
    <<"[", " ", "]">>,
    <<"p", "p">>,
    << >>,
    <<"[", "{", "}", "]", "p", "[", "{", "}", "]">>,
    <<"[", "{", "}">>,
    LongText }

\* what the environment of one call holds: the configured key, whether the
\* google.genai import and the client construction succeed, and what
\* client.models.generate_content does
ExternalOutcomes ==
  { [kind |-> "import_error"] }
    \cup { [kind |-> "client_raises", msg |-> m] : m \in ExcMessages }
    \cup { [kind |-> "call_raises", msg |-> m] : m \in ExcMessages }
    \cup { [kind |-> "response", text |-> None] }
    \cup { [kind |-> "response", text |-> Some(t)] : t \in ResponseTexts }

ApiKeys == { None, Some(""), Some("test-key") }

ScraperNames == { None, Some(<< >>), Some(<<"x">>) }

ScraperKwargs == { << >>, [run_manager |-> "m"] }

\* 'not value' for an optional text or key: None and the empty value are falsy
IsEmpty(v) == v = None \/ Len(v[1]) = 0

KeyMissing_onlyNone(key) == key = None

\* 'not settings.google_api_key'
KeyMissing(key) == key = None \/ key[1] = ""

Slice_oneMore(seq, n) == SubSeq(seq, 1, IF n + 1 < Len(seq) THEN n + 1 ELSE Len(seq))

\* seq[:n]
Slice(seq, n) ==
  IF n >= 0
  THEN SubSeq(seq, 1, IF n < Len(seq) THEN n ELSE Len(seq))
  ELSE SubSeq(seq, 1, IF Len(seq) + n > 0 THEN Len(seq) + n ELSE 0)

\* positions of a token in a text
Positions(s, tok) == { i \in 1..Len(s) : s[i] = tok }

Least(S) == CHOOSE i \in S : \A j \in S : i <= j

Greatest(S) == CHOOSE i \in S : \A j \in S : j <= i

\* the text between the first opening fence mark and the next fence mark,
\* stripped (line 133)
FencedContent(s) ==
  LET opens == Positions(s, "FENCE_JSON")
      first == Least(opens)
      after == SubSeq(s, first + 1, Len(s))
      stop  == { i \in 1..Len(after) : after[i] \in {"FENCE_JSON", "FENCE"} }
      inner == IF stop = {} THEN after ELSE SubSeq(after, 1, Least(stop) - 1)
  IN  Strip(inner)

\* re.search(r'\[[\s\S]*\]|\{[\s\S]*\}', text): the leftmost position that
\* opens a bracket with a matching closer somewhere after it, up to the last
\* such closer; << >> stands for no match
BracketMatch(s) ==
  LET starts == { i \in 1..Len(s) :
                    \/ s[i] = "[" /\ \E j \in (i + 1)..Len(s) : s[j] = "]"
                    \/ s[i] = "{" /\ \E j \in (i + 1)..Len(s) : s[j] = "}" }
  IN  IF starts = {} THEN None
      ELSE LET i == Least(starts)
               closer == IF s[i] = "[" THEN "]" ELSE "}"
           IN  Some(SubSeq(s, i, Greatest(Positions(s, closer))))

\* lines 132-137: the text handed to json.loads
JsonContent(s) ==
  IF Positions(s, "FENCE_JSON") # {} THEN FencedContent(s)
  ELSE LET m == BracketMatch(s) IN IF m # None THEN m[1] ELSE s

\* json.loads on the token language
RECURSIVE SkipWs(_, _)
SkipWs(s, i) == IF i <= Len(s) /\ s[i] = " " THEN SkipWs(s, i + 1) ELSE i

Tok(s, i) == IF i <= Len(s) THEN s[i] ELSE "<eof>"

ParseFail == [ok |-> FALSE]

RECURSIVE ParseValue(_, _)
RECURSIVE ParseItems(_, _, _)
ParseValue(s, i) ==
  LET j == SkipWs(s, i)
  IN  CASE Tok(s, j) = "n" -> [ok |-> TRUE, val |-> [kind |-> "num"], next |-> j + 1]
        [] Tok(s, j) = "{" ->
             LET k == SkipWs(s, j + 1)
             IN  IF Tok(s, k) = "}"
                 THEN [ok |-> TRUE, val |-> [kind |-> "dict", source_url |-> None],
                       next |-> k + 1]
                 ELSE IF Tok(s, k) = "url" /\ Tok(s, SkipWs(s, k + 1)) = "}"
                 THEN [ok |-> TRUE,
                       val |-> [kind |-> "dict", source_url |-> Some(<<"given">>)],
                       next |-> SkipWs(s, k + 1) + 1]
                 ELSE ParseFail
        [] Tok(s, j) = "[" ->
             LET k == SkipWs(s, j + 1)
             IN  IF Tok(s, k) = "]"
                 THEN [ok |-> TRUE, val |-> [kind |-> "list", items |-> << >>],
                       next |-> k + 1]
                 ELSE ParseItems(s, k, << >>)
        [] OTHER -> ParseFail

ParseItems(s, i, acc) ==
  LET v == ParseValue(s, i)
  IN  IF ~v.ok THEN ParseFail
      ELSE LET k == SkipWs(s, v.next)
           IN  CASE Tok(s, k) = "," -> ParseItems(s, k + 1, Append(acc, v.val))
                 [] Tok(s, k) = "]" ->
                      [ok |-> TRUE, val |-> [kind |-> "list", items |-> Append(acc, v.val)],
                       next |-> k + 1]
                 [] OTHER -> ParseFail

\* json.loads(json_content): ok is FALSE for JSONDecodeError
JsonLoads(s) ==
  LET v == ParseValue(s, 1)
  IN  IF v.ok /\ SkipWs(s, v.next) > Len(s) THEN v ELSE ParseFail

\* lines 142-148: the list of products of a parsed value
ProductsOf(parsed) ==
  CASE parsed.kind = "dict" -> << parsed >>
    [] parsed.kind = "list" -> parsed.items
    [] OTHER -> << >>

\* lines 151-153 raise TypeError on an entry that is not a mapping
IsMapping(v) == v.kind = "dict"

WithSourceUrl(product, product_name) ==
  IF product.source_url = None
  THEN [product EXCEPT !.source_url = Some(<<"Search result for">> \o product_name)]
  ELSE product

ErrorResult(message) ==
  [status |-> "error", error |-> message, products |-> << >>, count |-> 0]

SyntheticProduct_wholeText(product_name, text) ==
  [title |-> product_name,
   description |-> <<"Product information found but parsing failed:">> \o text,
   error |-> "JSON parsing failed",
   source_url |-> "Search result"]

\* lines 167-172: the entry returned when json.loads raises JSONDecodeError
SyntheticProduct(product_name, text) ==
  [title |-> product_name,
   description |-> <<"Product information found but parsing failed:">>
                     \o Slice(text, DescriptionLimit),
   error |-> "JSON parsing failed",
   source_url |-> "Search result"]

\* lines 139-174 and the handler of line 176 for what they raise
ParseResponse(text, product_name, max_results) ==
  LET loaded == JsonLoads(JsonContent(text))
  IN  IF loaded.ok
      THEN LET products == ProductsOf(loaded.val)
           IN  IF \E i \in 1..Len(products) : ~IsMapping(products[i])
               THEN ErrorResult(<<"Failed to search for">> \o product_name \o <<"TypeError">>)
               ELSE LET marked == [i \in 1..Len(products) |->
                                     WithSourceUrl(products[i], product_name)]
                    IN  [status |-> "success",
                         products |-> Slice(marked, max_results),
                         count |-> Len(Slice(marked, max_results))]
      ELSE [status |-> "success",
            products |-> << SyntheticProduct(product_name, text) >>,
            count |-> 1]

CallFailed_raises(product_name, msg) == [kind |-> "raise", msg |-> msg, calls |-> 1]

\* line 176: generate_content raised
CallFailed(product_name, msg) ==
  [kind |-> "return", calls |-> 1,
   value |-> ErrorResult(<<"Failed to search for">> \o product_name \o <<msg>>)]

\* lines 47-200: the part of _run that talks to the external API
SearchOnline(product_name, max_results, ext) ==
  CASE ext.kind = "import_error" ->
         [kind |-> "return", calls |-> 0,
          value |-> ErrorResult(<<"google.genai package not available">>)]
    [] ext.kind = "client_raises" ->
         [kind |-> "return", calls |-> 0,
          value |-> ErrorResult(<<"WebScraperTool failed:", ext.msg>>)]
    [] ext.kind = "call_raises" -> CallFailed(product_name, ext.msg)
    [] ext.kind = "response" ->
         IF ext.text = None
         THEN \* the fence test on None raises TypeError, caught at line 176
              [kind |-> "return", calls |-> 1,
               value |-> ErrorResult(<<"Failed to search for">> \o product_name
                                        \o <<"TypeError">>)]
         ELSE [kind |-> "return", calls |-> 1,
               value |-> ParseResponse(ext.text[1], product_name, max_results)]

WebScraperRun_keyFirst(product_name, max_results, kwargs, api_key, ext) ==
  IF KeyMissing(api_key)
  THEN [kind |-> "return", calls |-> 0,
        value |-> ErrorResult(<<"Google ", "API key", " not configured.">>)]
  ELSE IF IsEmpty(product_name)
  THEN [kind |-> "return", calls |-> 0,
        value |-> ErrorResult(<<"Product name is required">>)]
  ELSE SearchOnline(product_name[1], max_results, ext)

\* WebScraperTool._run(product_name, max_results, **kwargs)
WebScraperRun(product_name, max_results, kwargs, api_key, ext) ==
  LET from_kwargs == product_name = None /\ DOMAIN kwargs # {}
      name  == IF from_kwargs THEN Get(kwargs, "product_name", None) ELSE product_name
      limit == IF from_kwargs THEN Get(kwargs, "max_results", DefaultMaxResults)
               ELSE max_results
  IN  IF IsEmpty(name)
      THEN [kind |-> "return", calls |-> 0,
            value |-> ErrorResult(<<"Product name is required">>)]
      ELSE IF KeyMissing(api_key)
      THEN [kind |-> "return", calls |-> 0,
            value |-> ErrorResult(<<"Google ", "API key", " not configured.">>)]
      ELSE SearchOnline(name[1], limit, ext)

ScraperCalls ==
  [ tool : {"web_scraper"}, pc : {"call"},
    product_name : ScraperNames, max_results : (-1)..MaxLimit,
    kwargs : ScraperKwargs, api_key : ApiKeys, ext : ExternalOutcomes ]

ServiceIdle ==
  /\ analysis_cache = << >>
  /\ background_tasks = {}
  /\ responses = << >>
  /\ last_get = None
  /\ clock = 0
  /\ updates = << >>
  /\ run = IdleRun

ServiceVars == <<analysis_cache, background_tasks, responses, last_get, clock, updates, run>>

ScraperInit == ServiceIdle /\ tool_call \in ScraperCalls

web_scraper_run ==
  /\ tool_call.tool = "web_scraper"
  /\ tool_call.pc = "call"
  /\ tool_call' = [ pc |-> "done", tool |-> "web_scraper", args |-> tool_call,
                    out |-> WebScraperRun(tool_call.product_name, tool_call.max_results,
                                          tool_call.kwargs, tool_call.api_key, tool_call.ext) ]
  /\ UNCHANGED ServiceVars

ScraperNext == web_scraper_run

ScraperSpec == ScraperInit /\ [][ScraperNext]_vars

ScraperDone == tool_call.tool = "web_scraper" /\ tool_call.pc = "done"

\* the call reached the external API with a name and a key
ScraperSearched ==
  /\ ScraperDone
  /\ tool_call.args.product_name \notin {None, Some(<< >>)}
  /\ tool_call.args.api_key \notin {None, Some("")}

\* the call got a response text from the external API
ScraperGotText ==
  /\ ScraperSearched
  /\ tool_call.args.ext.kind = "response"
  /\ tool_call.args.ext.text # None

\* what json.loads made of the response text of the call
ScraperLoaded == JsonLoads(JsonContent(tool_call.args.ext.text[1]))

\* the list the parsed response stands for: an object is a one-element list
ScraperParsedList ==
  IF ScraperLoaded.val.kind = "dict" THEN << ScraperLoaded.val >>
  ELSE ScraperLoaded.val.items

\* C12: with no API key configured and a non-empty product name the tool
\* returns status 'error' with a message containing 'API key', no products,
\* count 0, and makes no external call.
C12_NoKeyGivesError ==
  (/\ ScraperDone
   /\ tool_call.args.api_key \in {None, Some("")}
   /\ tool_call.args.product_name \notin {None, Some(<< >>)}) =>
    /\ tool_call.out.kind = "return"
    /\ tool_call.out.value.status = "error"
    /\ \E i \in 1..Len(tool_call.out.value.error) : tool_call.out.value.error[i] = "API key"
    /\ tool_call.out.value.products = << >>
    /\ tool_call.out.value.count = 0
    /\ tool_call.out.calls = 0

C12_Witness ==
  /\ ScraperDone
  /\ tool_call.args.api_key = Some("")
  /\ tool_call.args.product_name = Some(<<"x">>)
  /\ tool_call.args.ext.kind = "response"
  /\ tool_call.out.calls = 0
  /\ tool_call.out.value.status = "error"

\* C13: for an empty or missing product name the tool returns status 'error'
\* with 'Product name is required' and makes no external call, whether or not
\* an API key is configured.
C13_EmptyNameGivesError ==
  (ScraperDone /\ tool_call.args.product_name \in {None, Some(<< >>)}) =>
    /\ tool_call.out.kind = "return"
    /\ tool_call.out.value.status = "error"
    /\ tool_call.out.value.error = <<"Product name is required">>
    /\ tool_call.out.calls = 0

C13_Witness ==
  /\ ScraperDone
  /\ tool_call.args.product_name = Some(<< >>)
  /\ tool_call.args.api_key = None
  /\ tool_call.out.value.error = <<"Product name is required">>
  /\ tool_call.out.calls = 0

\* C14: when the external API call raises, the tool does not raise: it
\* returns status 'error' with no products and count 0.
C14_ExternalFailureIsReturned ==
  ScraperDone =>
    /\ tool_call.out.kind = "return"
    /\ (ScraperSearched /\ tool_call.args.ext.kind \in {"call_raises", "client_raises", "import_error"}) =>
         /\ tool_call.out.value.status = "error"
         /\ tool_call.out.value.products = << >>
         /\ tool_call.out.value.count = 0

C14_Witness ==
  /\ ScraperSearched
  /\ tool_call.args.ext.kind = "call_raises"
  /\ tool_call.args.ext.msg = "Tool failed"
  /\ tool_call.out.kind = "return"
  /\ tool_call.out.calls = 1
  /\ tool_call.out.value.status = "error"

\* the returned products are the first 'limit' entries of the parsed list,
\* each with a source_url, and count is their number
FirstEntriesReturned(limit) ==
  LET value == tool_call.out.value
      n     == IF limit < Len(ScraperParsedList) THEN limit ELSE Len(ScraperParsedList)
  IN  /\ value.status = "success"
      /\ Len(value.products) = n
      /\ \A i \in 1..Len(value.products) :
           /\ value.products[i].kind = ScraperParsedList[i].kind
           /\ value.products[i].source_url # None
           /\ ScraperParsedList[i].source_url # None =>
                value.products[i].source_url = ScraperParsedList[i].source_url
      /\ value.count = Len(value.products)
      /\ value.count <= limit

OneSyntheticProduct ==
  /\ tool_call.out.kind = "return"
  /\ tool_call.out.value.status = "success"
  /\ Len(tool_call.out.value.products) = 1
  /\ tool_call.out.value.count = 1
  /\ tool_call.out.value.products[1].title = tool_call.args.product_name[1]

Returned == run.pc = "returned"

RaisedSteps == { run.raised[i].step : i \in 1..Len(run.raised) }

\* C1: a run in which at least one tool raised, whatever the message of the
\* exception, returns a result whose status is 'error'.
C1_RaisedToolGivesError ==
  (Returned /\ run.raised # << >>) => run.result[1].status = "error"

\* C2: the 'step' field of the error result names the step whose tool raised.
C2_StepNamesRaisingStep ==
  (Returned /\ run.raised # << >> /\ run.result[1].status = "error")
    => run.result[1].step \in RaisedSteps

\* C3: the five steps execute once each, in the order analyze_request,
\* scrape_products, analyze_sentiment, analyze_market, generate_report, also
\* after a step has set the error field; every tool is called exactly once per
\* run and handle_error is never executed.
C3_FiveStepsOnceInOrder ==
  run.pc \in {"invoke", "returned"} =>
    /\ Len(run.executed) <= Len(StepsCompleted)
    /\ run.executed = SubSeq(StepsCompleted, 1, Len(run.executed))
    /\ run.node # "handle_error"
    /\ (run.node # END) => run.node = StepsCompleted[Len(run.executed) + 1]
    /\ (run.node = END) => run.executed = StepsCompleted
    /\ \A n \in Nodes : ToolOf(n) \in ToolNames =>
         run.tool_calls[ToolOf(n)] =
           (IF \E i \in 1..Len(run.executed) : run.executed[i] = n THEN 1 ELSE 0)

C3_Witness ==
  /\ Returned
  /\ run.raised # << >>
  /\ run.raised[1].step = "scrape_products"
  /\ run.state[1].error # None
  /\ run.executed = StepsCompleted
  /\ \A t \in ToolNames : run.tool_calls[t] = 1

\* C4: run() returns 'success' exactly when the error field of the final
\* state is unset, then with the final report and the five steps_completed,
\* and 'error' exactly when it is set, then with the error text.
C4_StatusIffErrorField ==
  Returned =>
    LET r  == run.result[1]
        st == run.state[1]
    IN  /\ (r.status = "success") <=> (st.error = None)
        /\ (r.status = "error") <=> (st.error # None)
        /\ (r.status = "success") =>
             (r.report = st.final_report /\ r.steps_completed = StepsCompleted)
        /\ (r.status = "error") => r.error = st.error[1]

\* ------------------------------------------------------------------- cache
Terminal == {"completed", "failed"}

\* C5: the status of an entry only moves from 'processing' to 'completed' or
\* from 'processing' to 'failed', and never changes after that.
C5_StatusOnlyLeavesProcessing ==
  [][ \A k \in (DOMAIN analysis_cache) \cap (DOMAIN analysis_cache') :
        analysis_cache'[k].status # analysis_cache[k].status =>
          /\ analysis_cache[k].status = "processing"
          /\ analysis_cache'[k].status \in Terminal ]_vars

C5_Witness ==
  \E k1, k2 \in DOMAIN analysis_cache :
    analysis_cache[k1].status = "completed" /\ analysis_cache[k2].status = "failed"

\* C6 as stated: an entry is updated exactly twice after its creation.
C6_UpdatedExactlyTwice ==
  \A k \in DOMAIN analysis_cache :
    analysis_cache[k].status \in Terminal => updates[k] = 2

\* C6 amended: an entry is written once when POST /analyze creates it and is
\* afterwards updated exactly once, by the background run that finishes it:
\* no update while it is 'processing', one once it is 'completed' or 'failed'.
C6_UpdatedExactlyOnce ==
  \A k \in DOMAIN analysis_cache :
    /\ k \in DOMAIN updates
    /\ updates[k] = (IF analysis_cache[k].status = "processing" THEN 0 ELSE 1)

C6_Witness ==
  \E k \in DOMAIN analysis_cache :
    /\ analysis_cache[k].status \in Terminal
    /\ updates[k] = 1
    /\ background_tasks = {}
    /\ run.pc = "idle"

C8_RunWritesOwnEntry ==
  [][ \A k \in (DOMAIN analysis_cache) \cap (DOMAIN analysis_cache') :
        analysis_cache'[k] # analysis_cache[k] =>
          \/ /\ run.pc = "returned"
             /\ run.request_id = k
             /\ analysis_cache'[k].status = "completed"
             /\ analysis_cache'[k].result = run.result[1]
             /\ run.state[1].messages[1].content =
                  <<"analyze", " ">> \o analysis_cache[k].request.product_name
          \/ /\ run.pc # "returned"
             /\ \E t \in background_tasks \ background_tasks' : t.request_id = k
             /\ analysis_cache'[k].status = "failed" ]_vars

C8_Witness ==
  \E k1, k2 \in DOMAIN analysis_cache :
    /\ k1 # k2
    /\ analysis_cache[k1].status = "completed"
    /\ analysis_cache[k2].status = "processing"
    /\ analysis_cache[k2].started_at < analysis_cache[k1].completed_at
    /\ analysis_cache[k1].request.product_name # analysis_cache[k2].request.product_name

\* C9: POST /analyze stores the 'processing' entry before the background task
\* can run and answers with the request_id, status 'processing' and
\* result_url '/results/<request_id>'; run_analysis finds its entry present.
C9_EntryStoredBeforeTask ==
  /\ \A t \in background_tasks :
       /\ t.request_id \in DOMAIN analysis_cache
       /\ analysis_cache[t.request_id].status = "processing"
  /\ run.pc \in {"invoke", "returned"} => run.request_id \in DOMAIN analysis_cache
  /\ run.pc # "crashed"
  /\ \A i \in 1..Len(responses) :
       /\ responses[i].request_id \in DOMAIN analysis_cache
       /\ responses[i].status = "processing"
       /\ responses[i].result_url = <<"/results/", responses[i].request_id>>

C9_Witness ==
  /\ Len(responses) >= 1
  /\ run.pc = "returned"
  /\ run.request_id = responses[1].request_id
  /\ analysis_cache[run.request_id].status = "processing"

\* C10: GET /results/{request_id} answers 404 exactly when request_id is not
\* a key of the cache, otherwise the entry as stored; it leaves the cache as
\* it is.
C10_PollReadsCache ==
  [][ (last_get' # last_get /\ last_get' # None) =>
        LET g == last_get'[1]
        IN  /\ analysis_cache' = analysis_cache
            /\ (g.status_code = 404) <=> (g.request_id \notin DOMAIN analysis_cache)
            /\ (g.request_id \in DOMAIN analysis_cache) =>
                 (g.status_code = 200 /\ g.body = analysis_cache[g.request_id]) ]_vars

C10_Witness ==
  /\ last_get # None
  /\ last_get[1].status_code = 200
  /\ last_get[1].body.status = "completed"
  /\ \E k \in RequestIds : k \notin DOMAIN analysis_cache

\* C11: entries are never removed: an identifier POST /analyze has issued is
\* a key of the cache in every later state, and a poll for it never answers 404.
C11_IssuedStaysInCache ==
  /\ Issued \subseteq DOMAIN analysis_cache
  /\ (last_get # None /\ last_get[1].request_id \in Issued) =>
       last_get[1].status_code # 404

C11_Witness ==
  /\ Len(responses) >= 2
  /\ analysis_cache[responses[1].request_id].status = "failed"
  /\ analysis_cache[responses[2].request_id].status \in Terminal
  /\ last_get # None
  /\ last_get[1].request_id = responses[1].request_id
  /\ last_get[1].status_code = 200


\* ========================================================================
\* tools/sentiment_analyzer.py: SentimentAnalyzerTool
\* ========================================================================
\* A review is a record of kind "dict" holding the members it has (a member
\* the dict lacks is a field the record lacks), or a JSON value of another
\* kind.  Rounded figures are integers: sentiment_score, recommendation_rate
\* and verified_purchase_rate count tenths, average_rating counts hundredths.
\* The review texts, pros and cons and their top-5 ranking are not carried.
MaxReviews == 4

MaxReviewCount == 11

DefaultRating == 3

TemplateRounds == 2

SampleSize == 3

Percent == 100

OneDecimal == 10

TwoDecimals == 100

\* round(x, digits) for x = num / den counted in units of the last digit kept:
\* the integer nearest to num / den, a tie going to the even neighbour
RoundHalfEven(num, den) ==
  LET q == num \div den
      r == num % den
  IN  IF 2 * r < den THEN q
      ELSE IF 2 * r > den THEN q + 1
      ELSE IF q % 2 = 0 THEN q ELSE q + 1

ReviewShapes ==
  { [kind |-> "dict", rating |-> r, verified_purchase |-> TRUE] : r \in 1..5 }
    \cup { [kind |-> "dict"],
           [kind |-> "dict", rating |-> 3, verified_purchase |-> FALSE],
           [kind |-> "num"] }

ReviewLists == UNION { [1..n -> ReviewShapes] : n \in 0..MaxReviews }

NoReviews_never(reviews) == FALSE

\* 'not reviews' (line 146)
NoReviews(reviews) == Len(reviews) = 0

IsPositive_strict(r) == r > 4

\* lines 154-156: the three buckets
IsPositive(r) == r >= 4

IsNeutral(r) == r = 3

IsNegative_strict(r) == r < 2

IsNegative(r) == r <= 2

RECURSIVE Sum(_)
Sum(seq) == IF seq = << >> THEN 0 ELSE seq[1] + Sum(Tail(seq))

\* line 175: round((positive - negative) / len(reviews) * 100, 1)
ScoreOf(positive, negative, total) ==
  RoundHalfEven((positive - negative) * Percent * OneDecimal, total)

\* _analyze_sentiment(reviews); divisors lists the right operand of every
\* division performed, in order
AnalyzeSentiment(reviews) ==
  IF NoReviews(reviews)
  THEN [kind |-> "return", divisors |-> << >>,
        value |-> [error |-> "No reviews to analyze"]]
  ELSE IF \E i \in 1..Len(reviews) : reviews[i].kind # "dict"
  THEN \* r.get on a value that is not a dict
       [kind |-> "raise", exc |-> "AttributeError", divisors |-> << >>]
  ELSE LET ratings == [i \in 1..Len(reviews) |-> Get(reviews[i], "rating", DefaultRating)]
           total == Len(reviews)
       IN  IF Len(ratings) = 0
           THEN [kind |-> "raise", exc |-> "ZeroDivisionError", divisors |-> << 0 >>]
           ELSE LET positive == Cardinality({ i \in 1..total : IsPositive(ratings[i]) })
                    neutral  == Cardinality({ i \in 1..total : IsNeutral(ratings[i]) })
                    negative == Cardinality({ i \in 1..total : IsNegative(ratings[i]) })
                    verified == Cardinality({ i \in 1..total :
                                    Get(reviews[i], "verified_purchase", FALSE) })
                IN  [kind |-> "return",
                     divisors |-> << Len(ratings), total, total, total >>,
                     value |->
                       [average_rating |-> RoundHalfEven(Sum(ratings) * TwoDecimals,
                                                         Len(ratings)),
                        total_reviews |-> total,
                        sentiment_distribution |->
                          [positive |-> positive, neutral |-> neutral,
                           negative |-> negative],
                        sentiment_score |-> ScoreOf(positive, negative, total),
                        recommendation_rate |->
                          RoundHalfEven(positive * Percent * OneDecimal, total),
                        verified_purchase_rate |->
                          RoundHalfEven(verified * Percent * OneDecimal, total)]]

\* lines 85-131: the five templates
Templates ==
  << [kind |-> "dict", rating |-> 5, title |-> "Absolutely love it!",
      verified_purchase |-> TRUE, helpful_count |-> 245],
     [kind |-> "dict", rating |-> 4, title |-> "Good product with minor issues",
      verified_purchase |-> TRUE, helpful_count |-> 189],
     [kind |-> "dict", rating |-> 3, title |-> "Average, nothing special",
      verified_purchase |-> TRUE, helpful_count |-> 76],
     [kind |-> "dict", rating |-> 2, title |-> "Disappointed",
      verified_purchase |-> TRUE, helpful_count |-> 134],
     [kind |-> "dict", rating |-> 5, title |-> "Best purchase this year!",
      verified_purchase |-> TRUE, helpful_count |-> 412] >>

\* what the random module yields during one call: the template drawn in
\* round i is Templates[(first + i * stride) mod 5], every randint(10, 500)
\* yields helpful_count, and random() > 0.2 is verified in the even rounds and
\* true in the odd ones
RandomSources ==
  [ first : 0..(Len(Templates) - 1), stride : {0, 1},
    helpful_count : {10, 500}, verified : BOOLEAN ]

\* lines 136-140: the review appended in round i (from 0)
ReviewInstance(rnd, i) ==
  [ Templates[((rnd.first + i * rnd.stride) % Len(Templates)) + 1]
      EXCEPT !.helpful_count = rnd.helpful_count,
             !.verified_purchase = IF i % 2 = 0 THEN rnd.verified ELSE TRUE ]

\* line 135: len(range(min(count, len(templates) * 2)))
FallbackLength(count) ==
  LET cap == Len(Templates) * TemplateRounds
      n == IF count < cap THEN count ELSE cap
  IN  IF n > 0 THEN n ELSE 0

\* _get_fallback_reviews(product_name, count)
GetFallbackReviews(product_name, count, rnd) ==
  Slice([i \in 1..FallbackLength(count) |-> ReviewInstance(rnd, i - 1)], count)

LlmContents ==
  { <<"[", "{", "}", "]">>,
    <<"p", "[", "{", "}", ",", "{", "}", ",", "{", "}", "]", "p">>,
    <<"[", "n", "]">>,
    <<"[", " ", "]">>,
    <<"p", "p">>,
    << >>,
    <<"[", "{", "}">>,
    <<"{", "}">>,
    <<"[", "{", "}", "]", "p", "[", "{", "}", "]">>,
    <<"]", "[">> }

\* what ChatGoogleGenerativeAI(...) and llm.invoke(prompt) do in one call
LlmOutcomes ==
  { [kind |-> "ctor_raises", msg |-> m] : m \in ExcMessages }
    \cup { [kind |-> "invoke_raises", msg |-> m] : m \in ExcMessages }
    \cup { [kind |-> "response", content |-> None] }
    \cup { [kind |-> "response", content |-> Some(t)] : t \in LlmContents }

\* re.search(r'\[.*\]', content, re.DOTALL): from the first "[" that has a
\* "]" after it to the last "]"; None stands for no match
ArrayMatch(s) ==
  LET starts == { i \in 1..Len(s) : s[i] = "[" /\ \E j \in (i + 1)..Len(s) : s[j] = "]" }
  IN  IF starts = {} THEN None
      ELSE Some(SubSeq(s, Least(starts), Greatest(Positions(s, "]"))))

UseFallback_raises(product_name, count, rnd, calls) ==
  [kind |-> "raise", exc |-> "Exception", calls |-> calls]

\* lines 77-81: the except block logs, then line 81 returns the fallback
UseFallback(product_name, count, rnd, calls) ==
  [kind |-> "return", calls |-> calls, source |-> "templates",
   reviews |-> GetFallbackReviews(product_name, count, rnd)]

\* _generate_mock_reviews(product_name, count); calls counts llm.invoke
GenerateMockReviews(product_name, count, api_key, llm, rnd) ==
  IF KeyMissing(api_key) THEN UseFallback(product_name, count, rnd, 0)
  ELSE CASE llm.kind = "ctor_raises" -> UseFallback(product_name, count, rnd, 0)
         [] llm.kind = "invoke_raises" -> UseFallback(product_name, count, rnd, 1)
         [] llm.kind = "response" ->
              IF llm.content = None
              THEN \* re.search on a content that is not text raises TypeError
                   UseFallback(product_name, count, rnd, 1)
              ELSE LET m == ArrayMatch(llm.content[1])
                   IN  IF m = None THEN UseFallback(product_name, count, rnd, 1)
                       ELSE LET loaded == JsonLoads(m[1])
                            IN  IF loaded.ok
                                THEN [kind |-> "return", calls |-> 1, source |-> "llm",
                                      reviews |-> Slice(loaded.val.items, count)]
                                ELSE UseFallback(product_name, count, rnd, 1)

\* SentimentAnalyzerTool._run(product_name, review_count); reviews is the
\* local list of line 23
SentimentRun(product_name, review_count, api_key, llm, rnd) ==
  LET gen == GenerateMockReviews(product_name, review_count, api_key, llm, rnd)
  IN  IF gen.kind = "raise"
      THEN [kind |-> "return", calls |-> gen.calls, reviews |-> << >>,
            value |-> [status |-> "error", error |-> gen.exc, analysis |-> << >>]]
      ELSE LET an == AnalyzeSentiment(gen.reviews)
           IN  IF an.kind = "raise"
               THEN [kind |-> "return", calls |-> gen.calls, reviews |-> gen.reviews,
                     value |-> [status |-> "error", error |-> an.exc, analysis |-> << >>]]
               ELSE [kind |-> "return", calls |-> gen.calls, reviews |-> gen.reviews,
                     value |-> [status |-> "success",
                                product |-> product_name,
                                analysis |-> an.value,
                                review_count |-> Len(gen.reviews),
                                reviews_sample |-> Slice(gen.reviews, SampleSize)]]

SentimentCalls ==
  [ tool : {"sentiment_analyzer"}, pc : {"call"}, op : {"_run"},
    product_name : {<<"x">>}, review_count : (-1)..MaxReviewCount,
    api_key : ApiKeys, llm : LlmOutcomes, rnd : RandomSources ]

AnalyzeCalls ==
  [ tool : {"sentiment_analyzer"}, pc : {"call"}, op : {"_analyze_sentiment"},
    reviews : ReviewLists ]

SentimentInit == ServiceIdle /\ tool_call \in (SentimentCalls \cup AnalyzeCalls)

sentiment_run ==
  /\ tool_call.tool = "sentiment_analyzer"
  /\ tool_call.pc = "call"
  /\ tool_call.op = "_run"
  /\ tool_call' = [ pc |-> "done", tool |-> "sentiment_analyzer", op |-> "_run",
                    args |-> tool_call,
                    out |-> SentimentRun(tool_call.product_name, tool_call.review_count,
                                         tool_call.api_key, tool_call.llm, tool_call.rnd) ]
  /\ UNCHANGED ServiceVars

analyze_sentiment_call ==
  /\ tool_call.tool = "sentiment_analyzer"
  /\ tool_call.pc = "call"
  /\ tool_call.op = "_analyze_sentiment"
  /\ tool_call' = [ pc |-> "done", tool |-> "sentiment_analyzer",
                    op |-> "_analyze_sentiment", args |-> tool_call,
                    out |-> AnalyzeSentiment(tool_call.reviews) ]
  /\ UNCHANGED ServiceVars

SentimentNext == sentiment_run \/ analyze_sentiment_call

SentimentSpec == SentimentInit /\ [][SentimentNext]_vars

AnalyzeDone ==
  /\ tool_call.tool = "sentiment_analyzer"
  /\ tool_call.pc = "done"
  /\ tool_call.op = "_analyze_sentiment"

SentimentDone ==
  /\ tool_call.tool = "sentiment_analyzer"
  /\ tool_call.pc = "done"
  /\ tool_call.op = "_run"

\* C17: aggregation over an empty review list returns the error 'No reviews to
\* analyze' and divides nothing; over a non-empty list every division it
\* performs is by the number of reviews, which is not zero.
C17_EmptyListNoDivision ==
  AnalyzeDone =>
    LET reviews == tool_call.args.reviews
        out == tool_call.out
    IN  /\ (Len(reviews) = 0) =>
             /\ out.kind = "return"
             /\ out.value = [error |-> "No reviews to analyze"]
             /\ out.divisors = << >>
        /\ (Len(reviews) # 0) =>
             \A i \in DOMAIN out.divisors :
               out.divisors[i] = Len(reviews) /\ out.divisors[i] # 0

C17_Witness ==
  /\ AnalyzeDone
  /\ Len(tool_call.args.reviews) = 0
  /\ tool_call.out.kind = "return"
  /\ tool_call.out.value = [error |-> "No reviews to analyze"]

\* a non-empty list of reviews that all carry the rating r
AllRated(reviews, r) ==
  /\ Len(reviews) >= 1
  /\ \A i \in 1..Len(reviews) :
       /\ reviews[i].kind = "dict"
       /\ "rating" \in DOMAIN reviews[i]
       /\ reviews[i].rating = r

\* C18: for every N >= 1 the sentiment score of N five-star reviews is exactly
\* 100 and that of N two-star reviews is exactly -100 (1000 and -1000 tenths),
\* whether the list is handed to the aggregation or built by _run.
C18_UniformScores ==
  /\ AnalyzeDone =>
       /\ AllRated(tool_call.args.reviews, 5) =>
            tool_call.out.kind = "return" /\ tool_call.out.value.sentiment_score = 1000
       /\ AllRated(tool_call.args.reviews, 2) =>
            tool_call.out.kind = "return" /\ tool_call.out.value.sentiment_score = -1000
  /\ SentimentDone =>
       /\ AllRated(tool_call.out.reviews, 5) =>
            tool_call.out.value.analysis.sentiment_score = 1000
       /\ AllRated(tool_call.out.reviews, 2) =>
            tool_call.out.value.analysis.sentiment_score = -1000

C18_Witness ==
  /\ AnalyzeDone
  /\ Len(tool_call.args.reviews) >= 3
  /\ AllRated(tool_call.args.reviews, 2)
  /\ tool_call.out.value.sentiment_score = -1000

\* a non-empty list of dicts whose ratings, where present, are integers 1..5
RatedReviews(reviews) ==
  /\ Len(reviews) >= 1
  /\ \A i \in 1..Len(reviews) :
       /\ reviews[i].kind = "dict"
       /\ "rating" \in DOMAIN reviews[i] => reviews[i].rating \in 1..5

\* the positions of the reviews whose rating, 3 when missing, lies in bucket
InBucket(reviews, bucket) ==
  { i \in 1..Len(reviews) :
      (IF "rating" \in DOMAIN reviews[i] THEN reviews[i].rating ELSE 3) \in bucket }

\* the distribution counts the reviews rated 4 or 5, 3, and 1 or 2, the counts
\* sum to total_reviews, and the score lies between -100.0 and 100.0
BucketsPartition(reviews, analysis) ==
  LET dist == analysis.sentiment_distribution
  IN  /\ dist.positive = Cardinality(InBucket(reviews, {4, 5}))
      /\ dist.neutral = Cardinality(InBucket(reviews, {3}))
      /\ dist.negative = Cardinality(InBucket(reviews, {1, 2}))
      /\ analysis.total_reviews = Len(reviews)
      /\ dist.positive + dist.neutral + dist.negative = analysis.total_reviews
      /\ analysis.sentiment_score >= -1000
      /\ analysis.sentiment_score <= 1000

\* score / 10 = (positive - negative) / total * 100, cross-multiplied
ScoreExact(analysis) ==
  analysis.sentiment_score * analysis.total_reviews
    = (analysis.sentiment_distribution.positive
         - analysis.sentiment_distribution.negative) * 1000

\* score / 10 is within half a tenth of (positive - negative) / total * 100
ScoreToOneDecimal(analysis) ==
  LET exact == (analysis.sentiment_distribution.positive
                  - analysis.sentiment_distribution.negative) * 1000
      diff == analysis.sentiment_score * analysis.total_reviews - exact
  IN  /\ 2 * diff <= analysis.total_reviews
      /\ 2 * diff >= -analysis.total_reviews

\* C19 as stated: for a non-empty list with integer ratings 1..5 (missing = 3)
\* every review is in exactly one bucket, the counts sum to total_reviews, and
\* the score equals (positive - negative) / total * 100 and is in -100..100.
C19_ScoreIsExactRatio ==
  /\ (AnalyzeDone /\ RatedReviews(tool_call.args.reviews)) =>
       /\ tool_call.out.kind = "return"
       /\ BucketsPartition(tool_call.args.reviews, tool_call.out.value)
       /\ ScoreExact(tool_call.out.value)
  /\ (SentimentDone /\ RatedReviews(tool_call.out.reviews)) =>
       /\ tool_call.out.value.status = "success"
       /\ BucketsPartition(tool_call.out.reviews, tool_call.out.value.analysis)
       /\ ScoreExact(tool_call.out.value.analysis)

\* C19 amended: as above, with the score equal to (positive - negative) /
\* total * 100 rounded to one decimal place.
C19_ScoreIsRoundedRatio ==
  /\ (AnalyzeDone /\ RatedReviews(tool_call.args.reviews)) =>
       /\ tool_call.out.kind = "return"
       /\ BucketsPartition(tool_call.args.reviews, tool_call.out.value)
       /\ ScoreToOneDecimal(tool_call.out.value)
  /\ (SentimentDone /\ RatedReviews(tool_call.out.reviews)) =>
       /\ tool_call.out.value.status = "success"
       /\ BucketsPartition(tool_call.out.reviews, tool_call.out.value.analysis)
       /\ ScoreToOneDecimal(tool_call.out.value.analysis)

C19_Witness ==
  /\ AnalyzeDone
  /\ RatedReviews(tool_call.args.reviews)
  /\ Len(tool_call.args.reviews) = 3
  /\ \E i \in 1..3 : "rating" \notin DOMAIN tool_call.args.reviews[i]
  /\ tool_call.out.value.sentiment_distribution
       = [positive |-> 1, neutral |-> 2, negative |-> 0]
  /\ tool_call.out.value.sentiment_score = 333

\* the call could not get reviews from the LLM: no key, the constructor or
\* invoke raised, or the content holds no JSON array that json.loads accepts
LlmGenerationFailed(args) ==
  \/ args.api_key \in { None, Some("") }
  \/ args.llm.kind \in { "ctor_raises", "invoke_raises" }
  \/ /\ args.llm.kind = "response"
     /\ \/ args.llm.content = None
        \/ ArrayMatch(args.llm.content[1]) = None
        \/ ~JsonLoads(ArrayMatch(args.llm.content[1])[1]).ok

\* every review is one of the five templates, but for its helpful_count and
\* verified_purchase
FromTemplates(reviews) ==
  \A i \in 1..Len(reviews) :
    \E t \in 1..5 :
      /\ reviews[i].rating = Templates[t].rating
      /\ reviews[i].title = Templates[t].title

\* the result is a success that carries the statistics of the reviews
SuccessWithStatistics(out) ==
  /\ out.kind = "return"
  /\ out.value.status = "success"
  /\ out.value.review_count = Len(out.reviews)
  /\ "error" \notin DOMAIN out.value.analysis
  /\ "sentiment_score" \in DOMAIN out.value.analysis
  /\ out.value.analysis.total_reviews = Len(out.reviews)

\* C20 as stated: whenever generation through the LLM fails, _run uses reviews
\* built from the five templates and returns status 'success' with aggregated
\* statistics.
C20_FallbackGivesStatistics ==
  (SentimentDone /\ LlmGenerationFailed(tool_call.args)) =>
    /\ FromTemplates(tool_call.out.reviews)
    /\ SuccessWithStatistics(tool_call.out)

\* C20 amended: the same for a requested review count of at least 1; the
\* fallback then holds at least one review.
C20_FallbackGivesStatisticsForPositiveCount ==
  (/\ SentimentDone
   /\ LlmGenerationFailed(tool_call.args)
   /\ tool_call.args.review_count >= 1) =>
    /\ Len(tool_call.out.reviews) >= 1
    /\ FromTemplates(tool_call.out.reviews)
    /\ SuccessWithStatistics(tool_call.out)

C20_Witness ==
  /\ SentimentDone
  /\ tool_call.args.api_key = Some("test-key")
  /\ tool_call.args.llm.kind = "invoke_raises"
  /\ tool_call.args.review_count = 11
  /\ Len(tool_call.out.reviews) = 10
  /\ tool_call.out.value.status = "success"
  /\ tool_call.out.value.analysis.total_reviews = 10


\* ========================================================================
\* tools/report_generator.py: ReportGeneratorTool
\* ========================================================================
\* A Python value is a record with a kind: "dict" for a mapping, whose keys
\* are the other fields of the record, "none" for None and "list" for a value
\* that is neither (a list or a string without the keys looked up).  A list
\* that is read is a sequence.  average_rating, when present, is << >> for
\* None and <<n>> for the number n/100; price_change_percent counts
\* hundredths.  Timestamps and the chart JSON are not carried.
Raise(exc) == [kind |-> "raise", exc |-> exc]

Return(v) == [kind |-> "return", value |-> v]

IsDict(v) == v.kind = "dict"

\* 'key in v': None raises TypeError, a list or string just lacks the key
InRaises(v) == v.kind = "none"

Has(v, key) == IsDict(v) /\ key \in DOMAIN v

\* the keys of a mapping
Keys(v) == (DOMAIN v) \ {"kind"}

\* the first result that raised, or the value built from all of them
Raised(results) == { i \in 1..Len(results) : results[i].kind = "raise" }

PyNone == [kind |-> "none"]

PyList == [kind |-> "list"]

EmptyDict == [kind |-> "dict"]

RiskThreshold == 350

QualityThreshold == 400

ScoreThreshold == 500

TopEntries == 2

\* ---------------------------------------------------------- input shapes
ProductSections ==
  { PyNone, PyList, EmptyDict,
    [kind |-> "dict", status |-> "success", count |-> 1,
     products |-> << [kind |-> "dict", title |-> "T"] >>],
    [kind |-> "dict", status |-> "error", error |-> "Product name is required",
     count |-> 0, products |-> << >>],
    [kind |-> "dict", products |-> << [kind |-> "list"] >>],
    [kind |-> "dict", product |-> "Widget", products |-> << >>] }

Statistics(average) ==
  [kind |-> "dict", average_rating |-> average, total_reviews |-> 2,
   sentiment_distribution |-> [kind |-> "dict", positive |-> 1, neutral |-> 0,
                               negative |-> 1],
   sentiment_score |-> 0, recommendation_rate |-> 500,
   top_positive_aspects |-> <<"Great features">>,
   top_negative_aspects |-> << >>]

AverageRatings == { None, Some(RiskThreshold - 1), Some(RiskThreshold), Some(450) }

SentimentSections ==
  { PyNone, PyList, EmptyDict,
    [kind |-> "dict", status |-> "error", error |-> "e", analysis |-> EmptyDict],
    [kind |-> "dict", status |-> "success", product |-> "x", review_count |-> 0,
     analysis |-> [kind |-> "dict", error |-> "No reviews to analyze"]],
    [kind |-> "dict", analysis |-> PyNone],
    [kind |-> "dict", status |-> "success", product |-> "x",
     analysis |-> [kind |-> "dict", sentiment_score |-> 1000]] }
    \cup { [kind |-> "dict", status |-> "success", product |-> "x", review_count |-> 2,
            analysis |-> Statistics(a)] : a \in AverageRatings }

MarketInsights ==
  [kind |-> "dict",
   risks |-> <<"Supply chain disruptions", "New market entrants",
               "Changing consumer preferences", "Economic downturn impact">>,
   recommendations |-> <<"Focus on differentiating", "Invest in customer loyalty programs",
                         "Monitor competitor pricing strategies closely",
                         "Enhance product visibility on major platforms">>]

MarketSections ==
  { PyNone, PyList, EmptyDict,
    [kind |-> "dict", status |-> "error", error |-> "e", analysis |-> EmptyDict],
    [kind |-> "dict", price_trends |-> EmptyDict, demand_analysis |-> PyList],
    [kind |-> "dict", status |-> "success",
     price_trends |-> [kind |-> "dict", price_change_percent |-> -250,
                       historical_prices |-> [kind |-> "dict", dates |-> <<"d1">>,
                                              prices |-> <<100>>]],
     demand_analysis |-> [kind |-> "dict", demand_trend |-> "growing",
                          growth_potential |-> "High"],
     competitor_landscape |-> [kind |-> "dict", market_position |-> "Leader",
                               competitive_pressure |-> "Low",
                               main_competitors |-> << [kind |-> "dict", name |-> "A",
                                                        market_share |-> 10] >>],
     market_insights |-> MarketInsights] }

\* a mapping with the key when the section is given
Section(key, given) == IF given = None THEN << >> ELSE key :> given[1]

Optional(S) == { None } \cup { Some(v) : v \in S }

AnalysisResults ==
  { PyNone }
    \cup { EmptyDict @@ Section("product_analysis", p)
                     @@ Section("sentiment_analysis", s)
                     @@ Section("market_trends", m) :
             p \in Optional(ProductSections), s \in Optional(SentimentSections),
             m \in Optional(MarketSections) }

\* ------------------------------------------------------- section builders
\* the guard '"sentiment_analysis" in d and "analysis" in d["sentiment_analysis"]'
\* and the metrics read under it: None when the guard is false
SentimentMetrics(data) ==
  IF ~Has(data, "sentiment_analysis") THEN Return(None)
  ELSE LET section == data.sentiment_analysis
       IN  IF InRaises(section) THEN Raise("TypeError")
           ELSE IF ~Has(section, "analysis") THEN Return(None)
           ELSE Return(Some(section.analysis))

\* metrics.get("average_rating", default) compared with a number
AverageOf(metrics, default) ==
  IF ~IsDict(metrics) THEN Raise("AttributeError")
  ELSE LET average == Get(metrics, "average_rating", Some(default))
       IN  IF average = None THEN Raise("TypeError") ELSE Return(average[1])

\* _generate_metadata
GenerateMetadata(data) ==
  IF InRaises(data) THEN Raise("TypeError")
  ELSE LET named == IF Has(data, "product_analysis") THEN Some(data.product_analysis)
                    ELSE IF Has(data, "sentiment_analysis")
                    THEN Some(data.sentiment_analysis)
                    ELSE None
       IN  IF named # None /\ ~IsDict(named[1]) THEN Raise("AttributeError")
           ELSE Return([product |-> IF named = None THEN "Unknown Product"
                                    ELSE Get(named[1], "product", "Unknown Product"),
                        analysis_components |-> Keys(data),
                        report_version |-> "1.0"])

\* lines 77-81
ProductPoint(data) ==
  IF ~Has(data, "product_analysis") THEN Return(<< >>)
  ELSE LET section == data.product_analysis
       IN  IF InRaises(section) THEN Raise("TypeError")
           ELSE IF ~Has(section, "products") \/ section.products = << >> THEN Return(<< >>)
           ELSE IF ~IsDict(section.products[1]) THEN Raise("AttributeError")
           ELSE Return(<< <<"Product:", Get(section.products[1], "title", "N/A")>> >>)

\* lines 84-88
SentimentPoint(data) ==
  LET metrics == SentimentMetrics(data)
  IN  IF metrics.kind = "raise" THEN metrics
      ELSE IF metrics.value = None THEN Return(<< >>)
      ELSE IF ~IsDict(metrics.value[1]) THEN Raise("AttributeError")
      ELSE Return(<< <<"Customer Sentiment:",
                       Get(metrics.value[1], "average_rating", "N/A")>> >>)

\* lines 91-96
MarketPoint(data) ==
  IF ~Has(data, "market_trends") THEN Return(<< >>)
  ELSE LET trends == data.market_trends
       IN  IF InRaises(trends) THEN Raise("TypeError")
           ELSE IF ~Has(trends, "price_trends") THEN Return(<< >>)
           ELSE IF ~IsDict(trends.price_trends) THEN Raise("AttributeError")
           ELSE LET change == Get(trends.price_trends, "price_change_percent", 0)
                IN  Return(<< <<"Market Trend: Prices",
                                IF change > 0 THEN "increasing" ELSE "decreasing",
                                IF change < 0 THEN -change ELSE change>> >>)

DefaultSummary ==
  << <<"Analysis completed successfully with comprehensive market insights generated.">> >>

Collect_nodefault(parts, default) ==
  IF Raised(parts) # {} THEN parts[Least(Raised(parts))]
  ELSE LET RECURSIVE Cat(_)
           Cat(i) == IF i > Len(parts) THEN << >> ELSE parts[i].value \o Cat(i + 1)
       IN  Return(Cat(1))

\* the results of the parts of one builder, in order: the first exception,
\* or the concatenation of what they appended, or the default when that is empty
Collect(parts, default) ==
  IF Raised(parts) # {} THEN parts[Least(Raised(parts))]
  ELSE LET RECURSIVE Cat(_)
           Cat(i) == IF i > Len(parts) THEN << >> ELSE parts[i].value \o Cat(i + 1)
       IN  Return(IF Cat(1) = << >> THEN default ELSE Cat(1))

\* _generate_executive_summary: the points later joined with " | "
GenerateExecutiveSummary(data) ==
  IF InRaises(data) THEN Raise("TypeError")
  ELSE Collect(<<ProductPoint(data), SentimentPoint(data), MarketPoint(data)>>,
               DefaultSummary)

\* _compile_detailed_analysis
CompileDetailedAnalysis(data) ==
  IF InRaises(data) THEN Raise("TypeError")
  ELSE Return([k \in Keys(data) \cap {"product_analysis", "sentiment_analysis",
                                      "market_trends"} |-> data[k]])

\* lines 126-133
SentimentFindings(data) ==
  LET metrics == SentimentMetrics(data)
      Aspect(m, key, label) ==
        IF Has(m, key) /\ m[key] # << >> THEN << <<label, m[key][1]>> >> ELSE << >>
  IN  IF metrics.kind = "raise" THEN metrics
      ELSE IF metrics.value = None THEN Return(<< >>)
      ELSE IF InRaises(metrics.value[1]) THEN Raise("TypeError")
      ELSE Return(Aspect(metrics.value[1], "top_positive_aspects", "Top customer praise:")
                    \o Aspect(metrics.value[1], "top_negative_aspects",
                              "Main customer concern:"))

\* lines 136-145
MarketFindings(data) ==
  IF ~Has(data, "market_trends") THEN Return(<< >>)
  ELSE LET trends == data.market_trends
       IN  IF InRaises(trends) THEN Raise("TypeError")
           ELSE IF Has(trends, "demand_analysis") /\ ~IsDict(trends.demand_analysis)
           THEN Raise("AttributeError")
           ELSE IF Has(trends, "competitor_landscape")
                   /\ ~IsDict(trends.competitor_landscape)
           THEN Raise("AttributeError")
           ELSE Return(
                  (IF Has(trends, "demand_analysis")
                   THEN << <<"Demand trend:",
                             Get(trends.demand_analysis, "demand_trend", "stable")>>,
                           <<"Growth potential:",
                             Get(trends.demand_analysis, "growth_potential", "moderate")>> >>
                   ELSE << >>)
                  \o
                  (IF Has(trends, "competitor_landscape")
                   THEN << <<"Market position:",
                             Get(trends.competitor_landscape, "market_position",
                                 "competitive")>>,
                           <<"Competitive pressure:",
                             Get(trends.competitor_landscape, "competitive_pressure",
                                 "medium")>> >>
                   ELSE << >>))

DefaultFindings ==
  << <<"Product shows strong market potential">>,
     <<"Customer sentiment is generally positive">>,
     <<"Market conditions favor growth">>,
     <<"Competitive landscape presents opportunities">> >>

\* _extract_key_findings
ExtractKeyFindings(data) ==
  IF InRaises(data) THEN Raise("TypeError")
  ELSE Collect(<<SentimentFindings(data), MarketFindings(data)>>, DefaultFindings)

\* lines 162-167
SentimentRecommendations(data) ==
  LET metrics == SentimentMetrics(data)
  IN  IF metrics.kind = "raise" THEN metrics
      ELSE IF metrics.value = None THEN Return(<< >>)
      ELSE LET average == AverageOf(metrics.value[1], 0)
           IN  IF average.kind = "raise" THEN average
               ELSE Return(
                      (IF average.value < QualityThreshold
                       THEN <<"Focus on improving product quality based on customer feedback">>
                       ELSE << >>)
                      \o
                      (IF Get(metrics.value[1], "sentiment_score", 0) < ScoreThreshold
                       THEN <<"Address negative customer concerns to improve satisfaction">>
                       ELSE << >>))

\* lines 170-175 and 202-205: the first two entries of a list of the insights
InsightEntries(data, key) ==
  IF ~Has(data, "market_trends") THEN Return(<< >>)
  ELSE LET trends == data.market_trends
       IN  IF InRaises(trends) THEN Raise("TypeError")
           ELSE IF ~Has(trends, "market_insights") THEN Return(<< >>)
           ELSE IF InRaises(trends.market_insights) THEN Raise("TypeError")
           ELSE IF ~Has(trends.market_insights, key) THEN Return(<< >>)
           ELSE Return(Slice(trends.market_insights[key], TopEntries))

DefaultRecommendations ==
  <<"Maintain competitive pricing strategy",
    "Enhance product features based on customer feedback",
    "Expand marketing efforts to capture growing demand",
    "Monitor competitor activities closely">>

\* _generate_recommendations
GenerateRecommendations(data) ==
  IF InRaises(data) THEN Raise("TypeError")
  ELSE Collect(<<SentimentRecommendations(data), InsightEntries(data, "recommendations")>>,
               DefaultRecommendations)

IsLowRating_inclusive(average) == average <= RiskThreshold

\* line 197: average_rating < 3.5
IsLowRating(average) == average < RiskThreshold

\* lines 195-199
SentimentRisk(data) ==
  LET metrics == SentimentMetrics(data)
  IN  IF metrics.kind = "raise" THEN metrics
      ELSE IF metrics.value = None THEN Return(<< >>)
      ELSE LET average == AverageOf(metrics.value[1], 500)
           IN  IF average.kind = "raise" THEN average
               ELSE Return(IF IsLowRating(average.value)
                           THEN <<"Low customer satisfaction">> ELSE << >>)

DefaultRiskFactors ==
  <<"Market volatility", "Competitive pressure", "Supply chain uncertainties">>

\* _assess_risks
AssessRisks(data) ==
  IF InRaises(data) THEN Raise("TypeError")
  ELSE LET sentiment == SentimentRisk(data)
           factors == Collect(<<sentiment, InsightEntries(data, "risks")>>,
                              DefaultRiskFactors)
       IN  IF factors.kind = "raise" THEN factors
           ELSE Return([level |-> IF sentiment.value # << >> THEN "High" ELSE "Medium",
                        factors |-> factors.value])

\* lines 222-239: the charts the price step adds
PriceChart(data) ==
  IF ~Has(data, "market_trends") THEN Return({})
  ELSE LET trends == data.market_trends
       IN  IF InRaises(trends) THEN Raise("TypeError")
           ELSE IF ~Has(trends, "price_trends") THEN Return({})
           ELSE IF ~IsDict(trends.price_trends) THEN Raise("TypeError")
           ELSE IF ~Has(trends.price_trends, "historical_prices") THEN Raise("KeyError")
           ELSE LET history == trends.price_trends.historical_prices
                IN  IF InRaises(history) THEN Return({})
                    ELSE IF Has(history, "dates") /\ Has(history, "prices")
                    THEN Return({"price_trend_chart"})
                    ELSE Return({})

\* lines 242-258
SentimentChart(data) ==
  LET metrics == SentimentMetrics(data)
  IN  IF metrics.kind = "raise" THEN metrics
      ELSE IF metrics.value = None THEN Return({})
      ELSE IF InRaises(metrics.value[1]) THEN Raise("TypeError")
      ELSE IF ~Has(metrics.value[1], "sentiment_distribution") THEN Return({})
      ELSE IF ~IsDict(metrics.value[1].sentiment_distribution) THEN Raise("AttributeError")
      ELSE Return({"sentiment_chart"})

\* lines 261-274
MarketShareChart(data) ==
  IF ~Has(data, "market_trends") THEN Return({})
  ELSE LET trends == data.market_trends
       IN  IF InRaises(trends) THEN Raise("TypeError")
           ELSE IF ~Has(trends, "competitor_landscape") THEN Return({})
           ELSE IF InRaises(trends.competitor_landscape) THEN Raise("TypeError")
           ELSE IF ~Has(trends.competitor_landscape, "main_competitors") THEN Return({})
           ELSE LET competitors == trends.competitor_landscape.main_competitors
                IN  IF \E i \in 1..Len(competitors) :
                         ~(Has(competitors[i], "name") /\ Has(competitors[i], "market_share"))
                    THEN Raise("KeyError")
                    ELSE Return({"market_share_chart"})

\* _create_visualizations: its own except block keeps the charts made before
\* the first exception and returns them
CreateVisualizations(data) ==
  LET steps == <<PriceChart(data), SentimentChart(data), MarketShareChart(data)>>
      done  == IF Raised(steps) = {} THEN 1..Len(steps)
               ELSE 1..(Least(Raised(steps)) - 1)
  IN  Return(UNION { steps[i].value : i \in done })

\* lines 289-293: <<positive indicators, total indicators>> of the sentiment
SentimentIndicator(data) ==
  LET metrics == SentimentMetrics(data)
  IN  IF metrics.kind = "raise" THEN metrics
      ELSE IF metrics.value = None THEN Return(<<0, 0>>)
      ELSE LET average == AverageOf(metrics.value[1], 0)
           IN  IF average.kind = "raise" THEN average
               ELSE Return(<<IF average.value >= QualityThreshold THEN 1 ELSE 0, 1>>)

\* lines 295-300
DemandIndicator(data) ==
  IF ~Has(data, "market_trends") THEN Return(<<0, 0>>)
  ELSE LET trends == data.market_trends
       IN  IF InRaises(trends) THEN Raise("TypeError")
           ELSE IF ~Has(trends, "demand_analysis") THEN Return(<<0, 0>>)
           ELSE IF ~IsDict(trends.demand_analysis) THEN Raise("AttributeError")
           ELSE Return(<<IF Get(trends.demand_analysis, "demand_trend", "") = "growing"
                         THEN 1 ELSE 0, 1>>)

\* _generate_conclusion
GenerateConclusion(data) ==
  IF InRaises(data) THEN Raise("TypeError")
  ELSE LET parts == <<SentimentIndicator(data), DemandIndicator(data)>>
       IN  IF Raised(parts) # {} THEN parts[Least(Raised(parts))]
           ELSE LET positive == parts[1].value[1] + parts[2].value[1]
                    total    == parts[1].value[2] + parts[2].value[2]
                IN  Return(<<"Based on comprehensive analysis, the market outlook is",
                             IF 2 * positive > total THEN "positive"
                             ELSE "cautiously optimistic",
                             "The product shows strong potential with opportunities for growth.",
                             "Strategic implementation of recommendations will be crucial for success.">>)

ReportFailed_raises(exc) == Raise(exc)

\* lines 48-54: the except block of _run
ReportFailed(exc) ==
  Return([status |-> "error", error |-> exc, report |-> EmptyDict])

\* the sections of the report in the order _run builds them
SectionNames(include_visualizations) ==
  <<"metadata", "executive_summary", "detailed_analysis", "key_findings",
    "recommendations", "risk_assessment">>
    \o (IF include_visualizations THEN <<"visualizations">> ELSE << >>)
    \o <<"conclusion">>

BuildSection(name, data) ==
  CASE name = "metadata"          -> GenerateMetadata(data)
    [] name = "executive_summary" -> GenerateExecutiveSummary(data)
    [] name = "detailed_analysis" -> CompileDetailedAnalysis(data)
    [] name = "key_findings"      -> ExtractKeyFindings(data)
    [] name = "recommendations"   -> GenerateRecommendations(data)
    [] name = "risk_assessment"   -> AssessRisks(data)
    [] name = "visualizations"    -> CreateVisualizations(data)
    [] name = "conclusion"        -> GenerateConclusion(data)

\* ReportGeneratorTool._run(analysis_results, report_format, include_visualizations)
ReportRun(analysis_results, report_format, include_visualizations) ==
  LET names == SectionNames(include_visualizations)
      built == [i \in 1..Len(names) |-> BuildSection(names[i], analysis_results)]
  IN  IF Raised(built) # {} THEN ReportFailed(built[Least(Raised(built))].exc)
      ELSE Return([status |-> "success",
                   report |-> [n \in { names[i] : i \in 1..Len(names) } |->
                                 built[CHOOSE i \in 1..Len(names) : names[i] = n].value],
                   format |-> report_format])

ReportCalls ==
  [ tool : {"report_generator"}, pc : {"call"}, op : {"_run"},
    analysis_results : AnalysisResults, report_format : {"comprehensive"},
    include_visualizations : BOOLEAN ]

RiskCalls ==
  [ tool : {"report_generator"}, pc : {"call"}, op : {"_assess_risks"},
    analysis_data : AnalysisResults ]

ReportInit == ServiceIdle /\ tool_call \in (ReportCalls \cup RiskCalls)

report_run ==
  /\ tool_call.tool = "report_generator"
  /\ tool_call.pc = "call"
  /\ tool_call.op = "_run"
  /\ tool_call' = [ pc |-> "done", tool |-> "report_generator", op |-> "_run",
                    args |-> tool_call,
                    out |-> ReportRun(tool_call.analysis_results, tool_call.report_format,
                                      tool_call.include_visualizations) ]
  /\ UNCHANGED ServiceVars

assess_risks_call ==
  /\ tool_call.tool = "report_generator"
  /\ tool_call.pc = "call"
  /\ tool_call.op = "_assess_risks"
  /\ tool_call' = [ pc |-> "done", tool |-> "report_generator", op |-> "_assess_risks",
                    args |-> tool_call, out |-> AssessRisks(tool_call.analysis_data) ]
  /\ UNCHANGED ServiceVars

ReportNext == report_run \/ assess_risks_call

ReportSpec == ReportInit /\ [][ReportNext]_vars

ReportDone ==
  /\ tool_call.tool = "report_generator"
  /\ tool_call.pc = "done"
  /\ tool_call.op = "_run"

RisksDone ==
  /\ tool_call.tool = "report_generator"
  /\ tool_call.pc = "done"
  /\ tool_call.op = "_assess_risks"

\* C21: report assembly over an empty mapping returns status 'success' with
\* the templated summary, the default findings, the default recommendations,
\* risk level 'Medium' with the default factors, and a conclusion.
C21_EmptyInputGivesTemplatedReport ==
  (ReportDone /\ tool_call.args.analysis_results = EmptyDict) =>
    /\ tool_call.out.kind = "return"
    /\ tool_call.out.value.status = "success"
    /\ LET report == tool_call.out.value.report
       IN  /\ report.executive_summary =
                << <<"Analysis completed successfully with comprehensive market insights generated.">> >>
           /\ report.key_findings =
                << <<"Product shows strong market potential">>,
                   <<"Customer sentiment is generally positive">>,
                   <<"Market conditions favor growth">>,
                   <<"Competitive landscape presents opportunities">> >>
           /\ report.recommendations =
                <<"Maintain competitive pricing strategy",
                  "Enhance product features based on customer feedback",
                  "Expand marketing efforts to capture growing demand",
                  "Monitor competitor activities closely">>
           /\ report.risk_assessment =
                [level |-> "Medium",
                 factors |-> <<"Market volatility", "Competitive pressure",
                               "Supply chain uncertainties">>]
           /\ Len(report.conclusion) > 0

C21_Witness ==
  /\ ReportDone
  /\ tool_call.args.analysis_results = EmptyDict
  /\ tool_call.args.include_visualizations
  /\ tool_call.out.value.status = "success"
  /\ tool_call.out.value.report.visualizations = {}

\* the sections whose builder raises on the input of the call
RaisingSections ==
  LET names == SectionNames(tool_call.args.include_visualizations)
  IN  { i \in 1..Len(names) :
          BuildSection(names[i], tool_call.args.analysis_results).kind = "raise" }

\* C22: report assembly never raises; when a section builder raises on the
\* input, the tool returns status 'error' with the text of that exception and
\* an empty report.
C22_BuilderFailureIsReturned ==
  ReportDone =>
    /\ tool_call.out.kind = "return"
    /\ RaisingSections # {} =>
         /\ tool_call.out.value.status = "error"
         /\ tool_call.out.value.report = [kind |-> "dict"]
         /\ tool_call.out.value.error =
              BuildSection(SectionNames(tool_call.args.include_visualizations)
                             [Least(RaisingSections)],
                           tool_call.args.analysis_results).exc

C22_Witness ==
  /\ ReportDone
  /\ "product_analysis" \in DOMAIN tool_call.args.analysis_results
  /\ tool_call.args.analysis_results.product_analysis.kind = "dict"
  /\ "sentiment_analysis" \in DOMAIN tool_call.args.analysis_results
  /\ tool_call.args.analysis_results.sentiment_analysis = [kind |-> "none"]
  /\ tool_call.out.kind = "return"
  /\ tool_call.out.value.status = "error"
  /\ tool_call.out.value.error = "TypeError"

\* the input holds a sentiment analysis whose average_rating is below 3.5
LowAverage(data) ==
  /\ "sentiment_analysis" \in DOMAIN data
  /\ "analysis" \in DOMAIN data.sentiment_analysis
  /\ "average_rating" \in DOMAIN data.sentiment_analysis.analysis
  /\ data.sentiment_analysis.analysis.average_rating # << >>
  /\ data.sentiment_analysis.analysis.average_rating[1] < 350

\* C23: the risk level of a report is 'High' exactly when a sentiment analysis
\* is present and its average_rating is below 3.5, and 'Medium' otherwise.
C23_RiskLevelFromAverage ==
  /\ (ReportDone /\ tool_call.out.value.status = "success") =>
       LET level == tool_call.out.value.report.risk_assessment.level
       IN  /\ level \in {"High", "Medium"}
           /\ (level = "High") <=> LowAverage(tool_call.args.analysis_results)
  /\ (RisksDone /\ tool_call.out.kind = "return") =>
       LET level == tool_call.out.value.level
       IN  /\ level \in {"High", "Medium"}
           /\ (level = "High") <=> LowAverage(tool_call.args.analysis_data)

C23_Witness ==
  /\ ReportDone
  /\ tool_call.out.value.status = "success"
  /\ LowAverage(tool_call.args.analysis_results)
  /\ tool_call.out.value.report.risk_assessment.level = "High"
  /\ tool_call.out.value.report.risk_assessment.factors[1] = "Low customer satisfaction"

\* C24: every cache entry has the shape its status implies: 'processing' has
\* started_at and request and neither completed_at, result nor error;
\* 'completed' has also completed_at and result and no error; 'failed' has
\* also completed_at and error and no result.
C24_EntryShapeFollowsStatus ==
  \A k \in DOMAIN analysis_cache :
    LET keys == DOMAIN analysis_cache[k]
        status == analysis_cache[k].status
    IN  /\ {"status", "started_at", "request"} \subseteq keys
        /\ status = "processing" => keys \cap {"completed_at", "result", "error"} = {}
        /\ status = "completed" =>
             {"completed_at", "result"} \subseteq keys /\ "error" \notin keys
        /\ status = "failed" =>
             {"completed_at", "error"} \subseteq keys /\ "result" \notin keys

C24_Witness ==
  /\ \E k \in DOMAIN analysis_cache : analysis_cache[k].status = "failed"
  /\ \E k \in DOMAIN analysis_cache :
       /\ analysis_cache[k].status = "completed"
       /\ analysis_cache[k].result.status = "error"

\* the data fields of the workflow state that hold a result with status 'error'
ErrorResults(state) ==
  { f \in {"product_data", "sentiment_data", "market_data", "final_report"} :
      state[f] # None /\ state[f][1].status = "error" }

\* C26: when a tool returns a result with status 'error' without raising, the
\* error field stays unset, the remaining steps still run, and run() returns
\* status 'success'.
C26_ErrorResultIsNotAnError ==
  (/\ run.pc \in {"invoke", "returned"}
   /\ run.raised = << >>
   /\ ErrorResults(run.state[1]) # {}) =>
    /\ run.state[1].error = None
    /\ Returned =>
         /\ run.executed = <<"analyze_request", "scrape_products", "analyze_sentiment",
                             "analyze_market", "generate_report">>
         /\ run.result[1].status = "success"

C26_Witness ==
  /\ Returned
  /\ run.raised = << >>
  /\ "product_data" \in ErrorResults(run.state[1])
  /\ run.state[1].product_data[1].error = "Product name is required"
  /\ run.state[1].final_report[1].status = "success"
  /\ run.result[1].status = "success"

\* C27: a background run marks its entry 'completed' whenever orchestrator.run
\* has returned, whatever the status of the result; an entry becomes 'failed'
\* only in a run_analysis in which orchestrator.run did not return.
C27_CompletedWheneverRunReturns ==
  [][ /\ (run.pc = "returned" /\ run.request_id \in DOMAIN analysis_cache) =>
           /\ analysis_cache'[run.request_id].status = "completed"
           /\ analysis_cache'[run.request_id].result = run.result[1]
      /\ \A k \in DOMAIN analysis_cache :
           (analysis_cache[k].status = "processing"
              /\ analysis_cache'[k].status = "failed") =>
             /\ run.pc = "idle"
             /\ \E t \in background_tasks \ background_tasks' : t.request_id = k ]_vars

C27_Witness ==
  /\ run.pc = "idle"
  /\ \E k \in DOMAIN analysis_cache :
       /\ analysis_cache[k].status = "completed"
       /\ analysis_cache[k].result.status = "error"
       /\ analysis_cache[k].result.step = "generate_report"

\* C30: within a run the error field, once a step has raised, holds the text
\* of the last step that raised, and run() returns that text as its error.
C30_LastRaisedErrorIsReturned ==
  (run.pc \in {"invoke", "returned"} /\ run.raised # << >>) =>
    /\ run.state[1].error = Some(run.raised[Len(run.raised)].msg)
    /\ Returned =>
         /\ run.result[1].status = "error"
         /\ run.result[1].error = run.raised[Len(run.raised)].msg

\* ========================================================================
\* tools/market_trend_analyzer.py: MarketTrendAnalyzerTool
\* ========================================================================
\* Prices count cents and are rounded after every week, percentages count
\* hundredths, a date is the number of days before now.  The tool holds no
\* client of an external service: calls counts the requests it makes.
MaxDays == 15

WeekDays == 7

DefaultPeriod == 90

\* what the random module yields during one call: the base price and demand,
\* the weekly price variation in percent (uniform(-0.1, 0.15) drawn the same
\* every week), the market share of every competitor, and the coin of line 106;
\* random() of line 87 is taken as 0
MarketRandomSources ==
  [ base_price : {5000, 20000}, variation : {-10, 0, 15},
    base_demand : {1000, 50000}, growth_potential : {"High", "Moderate"} ]

WeekStarts_fullWeeks(days) ==
  LET RECURSIVE From(_)
      From(i) == IF i + WeekDays <= days THEN <<i>> \o From(i + WeekDays) ELSE << >>
  IN  From(0)

\* list(range(0, days, 7))
WeekStarts(days) ==
  LET RECURSIVE From(_)
      From(i) == IF i < days THEN <<i>> \o From(i + WeekDays) ELSE << >>
  IN  From(0)

\* lines 53-60: the price after the n-th weekly variation
RECURSIVE PriceAfter(_, _)
PriceAfter(rnd, n) ==
  IF n = 0 THEN rnd.base_price
  ELSE RoundHalfEven(PriceAfter(rnd, n - 1) * (100 + rnd.variation), 100)

\* _generate_price_history(product_name, days)
GeneratePriceHistory(product_name, days, rnd) ==
  LET weeks  == WeekStarts(days)
      prices == [n \in 1..Len(weeks) |-> PriceAfter(rnd, n)]
      dates  == [n \in 1..Len(weeks) |-> days - weeks[n]]
  IN  IF Len(prices) = 0
      THEN \* prices[-1] on an empty list
           Raise("list index out of range")
      ELSE LET current == prices[Len(prices)]
               initial == prices[1]
               change  == RoundHalfEven((current - initial) * Percent * TwoDecimals, initial)
           IN  Return([kind |-> "dict",
                       current_price |-> current,
                       price_change_percent |-> change,
                       price_trend |-> IF current - initial > 0 THEN "increasing"
                                       ELSE "decreasing",
                       historical_prices |-> [kind |-> "dict", dates |-> dates,
                                              prices |-> prices],
                       price_volatility |-> "medium",
                       min_price |-> Least({ prices[n] : n \in DOMAIN prices }),
                       max_price |-> Greatest({ prices[n] : n \in DOMAIN prices }),
                       average_price |-> RoundHalfEven(Sum(prices), Len(prices))])

\* _generate_demand_data(product_name, days): demand of week i is
\* int(base_demand * 1 * (1 + i / days * 0.2))
GenerateDemandData(product_name, days, rnd) ==
  LET weeks  == WeekStarts(days)
      scores == [n \in 1..Len(weeks) |->
                   (rnd.base_demand * (5 * days + weeks[n])) \div (5 * days)]
  IN  IF Len(scores) = 0 THEN Raise("list index out of range")
      ELSE Return([kind |-> "dict",
                   current_demand_score |-> scores[Len(scores)],
                   demand_trend |-> "growing",
                   growth_potential |-> rnd.growth_potential])

\* _generate_competitor_analysis(product_name, category)
GenerateCompetitorAnalysis(product_name, category, rnd) ==
  LET label(default) == IF category = None \/ category[1] = "" THEN default
                        ELSE category[1]
      competitors ==
        << [kind |-> "dict", name |-> <<"Competitor A", label("Premium")>>,
            market_share |-> 10],
           [kind |-> "dict", name |-> <<"Competitor B", label("Budget")>>,
            market_share |-> 35],
           [kind |-> "dict", name |-> <<"Competitor C", label("Mid-range")>>,
            market_share |-> 10] >>
  IN  Return([kind |-> "dict",
              total_competitors |-> Len(competitors),
              main_competitors |-> competitors,
              market_position |-> "Leader",
              competitive_pressure |-> "Medium"])

\* MarketTrendAnalyzerTool._run(product_name, category, time_period_days)
MarketTrendRun(product_name, category, time_period_days, rnd) ==
  LET parts == << GeneratePriceHistory(product_name, time_period_days, rnd),
                  GenerateDemandData(product_name, time_period_days, rnd),
                  GenerateCompetitorAnalysis(product_name, category, rnd),
                  Return(MarketInsights) >>
  IN  IF Raised(parts) # {}
      THEN [kind |-> "return", calls |-> 0,
            value |-> [kind |-> "dict", status |-> "error",
                       error |-> parts[Least(Raised(parts))].exc,
                       analysis |-> EmptyDict]]
      ELSE [kind |-> "return", calls |-> 0,
            value |-> [kind |-> "dict", status |-> "success",
                       product |-> product_name,
                       category |-> IF category = None \/ category[1] = ""
                                    THEN "General" ELSE category[1],
                       analysis_period |-> <<time_period_days, "days">>,
                       price_trends |-> parts[1].value,
                       demand_analysis |-> parts[2].value,
                       competitor_landscape |-> parts[3].value,
                       market_insights |-> parts[4].value]]

MarketCalls ==
  [ tool : {"market_trend"}, pc : {"call"},
    product_name : {<<"x">>}, category : {None, Some("Audio")},
    time_period_days : ((-1)..MaxDays) \cup {DefaultPeriod},
    rnd : MarketRandomSources ]

MarketInit == ServiceIdle /\ tool_call \in MarketCalls

market_trend_run ==
  /\ tool_call.tool = "market_trend"
  /\ tool_call.pc = "call"
  /\ tool_call' = [ pc |-> "done", tool |-> "market_trend", args |-> tool_call,
                    out |-> MarketTrendRun(tool_call.product_name, tool_call.category,
                                           tool_call.time_period_days, tool_call.rnd) ]
  /\ UNCHANGED ServiceVars

MarketNext == market_trend_run

MarketSpec == MarketInit /\ [][MarketNext]_vars

MarketDone == tool_call.tool = "market_trend" /\ tool_call.pc = "done"

MaxNameLen == 3

\* AnalysisRequest.product_name is an unconstrained str
SubmittedNames ==
  UNION { [1..n -> {"x", "analyze", "Analyze", " "}] : n \in 0..MaxNameLen }

\* f"analyze {product_name}"
RequestText(product_name) == <<"analyze", " ">> \o product_name

ExtractCalls == [ tool : {"extract"}, pc : {"call"}, product_name : SubmittedNames ]

ExtractInit == ServiceIdle /\ tool_call \in ExtractCalls

extract_product_name ==
  /\ tool_call.tool = "extract"
  /\ tool_call.pc = "call"
  /\ tool_call' = [ pc |-> "done", tool |-> "extract", args |-> tool_call,
                    out |-> analyze_request(
                              InitialState(RequestText(tool_call.product_name))).product_name ]
  /\ UNCHANGED ServiceVars

ExtractNext == extract_product_name

ExtractSpec == ExtractInit /\ [][ExtractNext]_vars

ExtractDone == tool_call.tool = "extract" /\ tool_call.pc = "done"

\* C29: for every submitted product name P, the name extracted from the
\* request text "analyze P" and passed to the tools is P with surrounding
\* whitespace removed.
C29_ExtractedNameIsStripped ==
  ExtractDone => tool_call.out = Some(Strip(tool_call.args.product_name))

\* ========================================================================
\* Progress of accepted requests
\* ========================================================================
\* The event loop runs every queued background task (run_analysis starts as
\* soon as the loop is free), and every tool call, run() and the final cache
\* update terminate: each of these steps is taken once it stays enabled.
StartTask == \E t \in background_tasks : run_analysis_failed(t) \/ run_analysis_begin(t)

\* The product name does not decide which step runs next, so one name is
\* submitted here.
FairNext ==
  \/ \E request \in { r \in AnalysisRequest : r.product_name = <<"x">> } :
       analyze_product(request)
  \/ \E t \in background_tasks : run_analysis_failed(t)
  \/ \E t \in background_tasks : run_analysis_begin(t)
  \/ workflow_step
  \/ run_return
  \/ run_analysis_end
  \/ \E request_id \in RequestIds : get_results(request_id)

FairSpec ==
  /\ Init /\ [][FairNext]_vars
  /\ WF_vars(StartTask)
  /\ WF_vars(workflow_step)
  /\ WF_vars(run_return)
  /\ WF_vars(run_analysis_end)

Processing(k) == k \in DOMAIN analysis_cache /\ analysis_cache[k].status = "processing"

Finished(k) ==
  k \in DOMAIN analysis_cache /\ analysis_cache[k].status \in {"completed", "failed"}

\* C28: when tool calls terminate and background tasks are scheduled fairly,
\* every request accepted by POST /analyze eventually reaches status
\* 'completed' or 'failed': no entry stays 'processing' forever.
C28_EveryRequestFinishes ==
  \A k \in RequestIds : Processing(k) ~> Finished(k)

\* the second of two queued requests has finished after waiting for the first
C28_Witness ==
  /\ Len(responses) = 2
  /\ \A k \in DOMAIN analysis_cache : Finished(k)
  /\ \E k \in DOMAIN analysis_cache : updates[k] = 1 /\ analysis_cache[k].status = "completed"
  /\ background_tasks = {}

====
